---- MODULE Spec2Model ----
(***************************************************************************)
(* The turn-resolution and progression state machine of the weight game   *)
(* (src/test_mich/backend/game_engine.py), served over HTTP by            *)
(* src/test_mich/server.py.                                               *)
(*                                                                         *)
(* Text is modelled as a sequence of one-character strings, so that the   *)
(* string transforms of the engine (strip, lower, slugify, canonicalize,  *)
(* rule keys) are computed character by character as the code does.       *)
(***************************************************************************)
EXTENDS Integers, Sequences, FiniteSets, TLC

(***************************************************************************)
(* Characters and the str methods / regular expressions the engine uses.  *)
(***************************************************************************)
UPPERCASE ==
    <<"A", "B", "C", "D", "E", "F", "G", "H", "I", "J", "K", "L", "M",
      "N", "O", "P", "Q", "R", "S", "T", "U", "V", "W", "X", "Y", "Z">>

LOWERCASE ==
    <<"a", "b", "c", "d", "e", "f", "g", "h", "i", "j", "k", "l", "m",
      "n", "o", "p", "q", "r", "s", "t", "u", "v", "w", "x", "y", "z">>

DIGITS == {"0", "1", "2", "3", "4", "5", "6", "7", "8", "9"}

\* Python's None, kept apart from every text (a text holds single characters).
None == <<"<None>">>

is_upper(c) == \E i \in DOMAIN UPPERCASE : UPPERCASE[i] = c

is_lower(c) == \E i \in DOMAIN LOWERCASE : LOWERCASE[i] = c

is_digit(c) == c \in DIGITS

\* \s of the re module, on the characters the model uses.
is_space(c) == c \in {" ", "\t"}

char_lower(c) ==
    IF is_upper(c)
    THEN LOWERCASE[CHOOSE i \in DOMAIN UPPERCASE : UPPERCASE[i] = c]
    ELSE c

RECURSIVE str_lower(_)
str_lower(s) ==
    IF s = <<>> THEN <<>> ELSE <<char_lower(Head(s))>> \o str_lower(Tail(s))

RECURSIVE lstrip(_)
lstrip(s) == IF s # <<>> /\ is_space(Head(s)) THEN lstrip(Tail(s)) ELSE s

RECURSIVE rstrip(_)
rstrip(s) ==
    IF s # <<>> /\ is_space(s[Len(s)]) THEN rstrip(SubSeq(s, 1, Len(s) - 1)) ELSE s

\* str.strip()
strip(s) == rstrip(lstrip(s))

RECURSIVE lstrip_chars(_, _)
lstrip_chars(s, chars) ==
    IF s # <<>> /\ Head(s) \in chars THEN lstrip_chars(Tail(s), chars) ELSE s

RECURSIVE rstrip_chars(_, _)
rstrip_chars(s, chars) ==
    IF s # <<>> /\ s[Len(s)] \in chars
    THEN rstrip_chars(SubSeq(s, 1, Len(s) - 1), chars)
    ELSE s

\* str.strip(chars)
strip_chars(s, chars) == rstrip_chars(lstrip_chars(s, chars), chars)

\* re.sub(r"\s+", " ", s)
RECURSIVE collapse_ws(_)
collapse_ws(s) ==
    IF s = <<>> THEN <<>>
    ELSE IF is_space(Head(s)) THEN <<" ">> \o collapse_ws(lstrip(s))
    ELSE <<Head(s)>> \o collapse_ws(Tail(s))

\* re.sub(r"[^...]", " ", s) for a character class given by keep(_).
RECURSIVE blank_unless(_, _)
blank_unless(keep(_), s) ==
    IF s = <<>> THEN <<>>
    ELSE <<IF keep(Head(s)) THEN Head(s) ELSE " ">> \o blank_unless(keep, Tail(s))

\* str.replace(old, new) for single characters.
RECURSIVE replace_char(_, _, _)
replace_char(s, old, new) ==
    IF s = <<>> THEN <<>>
    ELSE <<IF Head(s) = old THEN new ELSE Head(s)>> \o replace_char(Tail(s), old, new)

\* [t for t in s.split(sep) if t]
RECURSIVE split_nonempty(_, _, _)
split_nonempty(s, sep, cur) ==
    IF s = <<>> THEN (IF cur = <<>> THEN <<>> ELSE <<cur>>)
    ELSE IF Head(s) = sep
         THEN (IF cur = <<>> THEN <<>> ELSE <<cur>>) \o split_nonempty(Tail(s), sep, <<>>)
         ELSE split_nonempty(Tail(s), sep, Append(cur, Head(s)))

\* len(s.split(sep)) for a non-empty s: one more than the separators in it.
count_char(s, c) == Cardinality({i \in DOMAIN s : s[i] = c})

\* sep.join(tokens)
RECURSIVE join(_, _)
join(tokens, sep) ==
    IF tokens = <<>> THEN <<>>
    ELSE IF Len(tokens) = 1 THEN Head(tokens)
    ELSE Head(tokens) \o <<sep>> \o join(Tail(tokens), sep)

endswith(s, suffix) ==
    /\ Len(s) >= Len(suffix)
    /\ SubSeq(s, Len(s) - Len(suffix) + 1, Len(s)) = suffix

startswith(s, prefix) ==
    /\ Len(s) >= Len(prefix)
    /\ SubSeq(s, 1, Len(prefix)) = prefix

drop(s, n) == SubSeq(s, n + 1, Len(s))

(***************************************************************************)
(* Canonicalization utilities.                                             *)
(***************************************************************************)
slug_char(c) == is_lower(c) \/ is_upper(c) \/ is_digit(c) \/ is_space(c) \/ c \in {"_", "-"}

slugify(value) ==
    LET cleaned == strip(collapse_ws(blank_unless(slug_char, str_lower(value))))
    IN  IF cleaned = <<>> THEN <<>> ELSE replace_char(cleaned, " ", "_")

singularize(token) ==
    IF Len(token) > 3 /\ endswith(token, <<"i", "e", "s">>)
    THEN SubSeq(token, 1, Len(token) - 3) \o <<"y">>
    ELSE IF Len(token) > 3 /\ endswith(token, <<"s", "e", "s">>)
    THEN SubSeq(token, 1, Len(token) - 2)
    ELSE IF Len(token) > 3 /\ endswith(token, <<"s">>) /\ ~endswith(token, <<"s", "s">>)
    THEN SubSeq(token, 1, Len(token) - 1)
    ELSE token

RECURSIVE map_singularize(_)
map_singularize(tokens) ==
    IF tokens = <<>> THEN <<>>
    ELSE <<singularize(Head(tokens))>> \o map_singularize(Tail(tokens))

RECURSIVE digit_run(_)
digit_run(s) == IF s # <<>> /\ is_digit(Head(s)) THEN 1 + digit_run(Tail(s)) ELSE 0

\* re.sub(r"^\d+\s+", "", text)
strip_leading_count(text) ==
    LET n == digit_run(text)
    IN  IF n >= 1 /\ n < Len(text) /\ is_space(text[n + 1])
        THEN lstrip(drop(text, n))
        ELSE text

ARTICLES == {<<"a">>, <<"a", "n">>, <<"t", "h", "e">>}

\* re.sub(r"^(a|an|the)\s+", "", text)
strip_leading_article(text) ==
    IF \E art \in ARTICLES :
          /\ startswith(text, art)
          /\ Len(text) > Len(art)
          /\ is_space(text[Len(art) + 1])
    THEN LET art == CHOOSE a \in ARTICLES :
                       /\ startswith(text, a)
                       /\ Len(text) > Len(a)
                       /\ is_space(text[Len(a) + 1])
         IN  lstrip(drop(text, Len(art)))
    ELSE text

canonical_char(c) == is_lower(c) \/ is_digit(c) \/ is_space(c)

UNKNOWN_ITEM == <<"u", "n", "k", "n", "o", "w", "n", "_", "i", "t", "e", "m">>

canonicalize(raw_input) ==
    LET text1 == strip(str_lower(raw_input))
        text2 == strip(collapse_ws(blank_unless(canonical_char, text1)))
        text3 == strip_leading_article(strip_leading_count(text2))
        tokens == map_singularize(split_nonempty(text3, " ", <<>>))
        canonical == strip_chars(join(tokens, "_"), {"_"})
    IN  IF canonical = <<>> THEN UNKNOWN_ITEM ELSE canonical

(***************************************************************************)
(* Rule texts.                                                             *)
(***************************************************************************)
rule_key(value) == collapse_ws(str_lower(strip(value)))

NULL_PHRASES ==
    { <<"n", "o", "n", "e">>, <<"n", "/", "a">>, <<"s", "a", "m", "e">>,
      <<"n", "o", " ", "r", "u", "l", "e">> }

\* The checks of _normalize_rule on the trimmed text.
accept_rule(normalized) ==
    IF normalized = <<>> THEN None
    ELSE IF Len(normalized) < 3 \/ Len(normalized) > 64 THEN None
    ELSE IF count_char(normalized, " ") + 1 > 8 THEN None
    ELSE IF str_lower(normalized) \in NULL_PHRASES THEN None
    ELSE normalized

normalize_rule(rule) ==
    accept_rule(strip_chars(collapse_ws(strip(rule)), {" ", ".", ";", ":", "!", "?"}))

T_HOLD == <<"h", "o", "l", "d">>

T_SHRINK_MAX == <<"s", "h", "r", "i", "n", "k", "_", "m", "a", "x">>

T_RAISE_MIN == <<"r", "a", "i", "s", "e", "_", "m", "i", "n">>

T_ADD_RULE == <<"a", "d", "d", "_", "r", "u", "l", "e">>

T_SET_RULES == <<"s", "e", "t", "_", "r", "u", "l", "e", "s">>

T_SET_RANGE == <<"s", "e", "t", "_", "r", "a", "n", "g", "e">>

NoBound == [kind |-> "missing", val |-> 0]

(***************************************************************************)
(* Inputs: the texts a player submits, the responses of the judge, the    *)
(* progression lists it proposes, and the engine configurations.          *)
(***************************************************************************)
StrEntry(type) ==
    [shape |-> "str", type |-> type, rule |-> None, has_rules |-> FALSE,
     rules |-> <<>>, min_g |-> NoBound, max_g |-> NoBound]

DictEntry(type) == [StrEntry(type) EXCEPT !.shape = "dict"]

AddRule(rule) == [DictEntry(T_ADD_RULE) EXCEPT !.rule = rule]

SetRules(rules) == [DictEntry(T_SET_RULES) EXCEPT !.has_rules = TRUE, !.rules = rules]

IntBound(n) == [kind |-> "int", val |-> n]

SetRange(lo, hi) == [DictEntry(T_SET_RANGE) EXCEPT !.min_g = lo, !.max_g = hi]

BE_FOOD == <<"b", "e", " ", "f", "o", "o", "d">>

BE_FOOD_VARIANT == <<"B", "e", " ", " ", "f", "o", "o", "d", ".">>

NOT_BE_FOOD == <<"n", "o", "t", " ", "b", "e", " ", "f", "o", "o", "d">>

BE_ALIVE == <<"b", "e", " ", "a", "l", "i", "v", "e">>

NULL_RULE == <<"n", "o", "n", "e">>

\* Two texts naming one item, a text whose raw key is the end command, a
\* text without a slug, the end command, and a blank text.
InputTexts ==
    { <<"c", "a", "t">>, <<"C", "a", "t", "s">>, <<"T", "i", "m", "e", "!">>,
      <<"?", "!">>, <<" ", "T", "i", "m", "e">>, <<" ", " ">> }

ProposedActionLists ==
    { <<>>,
      <<DictEntry(T_HOLD)>>,
      <<StrEntry(<<"S", "h", "r", "i", "n", "k", "_", "M", "a", "x", " ">>)>>,
      <<DictEntry(T_RAISE_MIN), DictEntry(T_RAISE_MIN)>>,
      <<DictEntry(T_SHRINK_MAX), DictEntry(T_SHRINK_MAX), DictEntry(T_SHRINK_MAX)>>,
      <<DictEntry(T_SHRINK_MAX), AddRule(BE_FOOD)>>,
      <<DictEntry(T_HOLD), AddRule(BE_FOOD)>>,
      <<AddRule(BE_FOOD_VARIANT), AddRule(NOT_BE_FOOD)>>,
      <<AddRule(BE_ALIVE), DictEntry(T_RAISE_MIN)>>,
      <<AddRule(NULL_RULE), DictEntry(<<"g", "r", "o", "w">>)>>,
      <<DictEntry(<<" ">>), [StrEntry(<<>>) EXCEPT !.shape = "other"],
        DictEntry(T_SHRINK_MAX)>>,
      <<SetRange(IntBound(5), IntBound(400)), SetRules(<<BE_ALIVE>>)>> }

BoolValue(b) == [kind |-> "bool", bool |-> b, text |-> <<>>]

StrValue(text) == [kind |-> "str", bool |-> FALSE, text |-> text]

Check(rule, ok) == [is_dict |-> TRUE, rule |-> rule, ok |-> ok]

CHECK_FOOD == <<"B", "e", " ", " ", "F", "o", "o", "d">>

CHECK_ALIVE == <<"B", "E", " ", "A", "L", "I", "V", "E">>

ChecksAllOk ==
    << Check(CHECK_FOOD, StrValue(<<"Y", "e", "s", " ">>)),
       Check(CHECK_ALIVE, BoolValue(TRUE)),
       Check(NOT_BE_FOOD, BoolValue(TRUE)) >>

ChecksFoodFails == [ChecksAllOk EXCEPT ![1] = Check(CHECK_FOOD, BoolValue(FALSE))]

ChecksFoodTwice == <<Check(BE_FOOD, BoolValue(FALSE))>> \o ChecksAllOk

ChecksFoodOnly == <<Check(BE_FOOD, BoolValue(TRUE))>>

ChecksBlankRule == <<Check(<<" ">>, BoolValue(TRUE))>>

BaseResponse ==
    [raises |-> FALSE, canonical_name |-> None,
     estimated_weight_g |-> [kind |-> "num", val |-> 150],
     cheating |-> BoolValue(FALSE),
     rule_checks_is_list |-> TRUE, rule_checks |-> ChecksAllOk]

Weight(n) == [kind |-> "num", val |-> n]

JudgeResponses ==
    { [BaseResponse EXCEPT !.estimated_weight_g = Weight(w), !.cheating = BoolValue(c)] :
          w \in {0, 150, 10000000, 10000001}, c \in BOOLEAN }
    \cup { [BaseResponse EXCEPT !.rule_checks = rc] :
              rc \in {<<>>, ChecksFoodFails, ChecksFoodTwice, ChecksFoodOnly, ChecksBlankRule} }
    \cup { [BaseResponse EXCEPT !.rule_checks = ChecksFoodFails,
                                !.estimated_weight_g = Weight(10000001),
                                !.cheating = BoolValue(c)] : c \in BOOLEAN }
    \cup { [BaseResponse EXCEPT !.cheating = StrValue(t)] :
              t \in {<<"Y", "e", "s", " ">>, <<"m", "a", "y", "b", "e">>} }
    \cup { [BaseResponse EXCEPT !.canonical_name = n] :
              n \in {<<"T", "h", "e", " ", "C", "a", "t", "s">>, <<" ", " ">>} }
    \cup { [BaseResponse EXCEPT !.estimated_weight_g = [kind |-> "invalid", val |-> 0]],
           [BaseResponse EXCEPT !.rule_checks_is_list = FALSE],
           [BaseResponse EXCEPT !.raises = TRUE] }

DEFAULT_DEMO_ACTIONS == <<DictEntry(T_SHRINK_MAX)>>

\* The lists _apply_progression is called with when it is called on its own:
\* those above, the default of the demo mode, and lists that move a bound
\* after a set_range entry or after an entry of no known type.
CalledActionLists ==
    ProposedActionLists
    \cup { DEFAULT_DEMO_ACTIONS,
           <<SetRange(IntBound(5), IntBound(400)), DictEntry(T_SHRINK_MAX)>>,
           <<SetRange(IntBound(5), IntBound(400)), DictEntry(T_RAISE_MIN)>>,
           <<SetRange(IntBound(5), IntBound(7)), DictEntry(T_RAISE_MIN)>>,
           <<DictEntry(<<"g", "r", "o", "w">>), DictEntry(T_RAISE_MIN)>> }

\* A demo_progression.json with "turns" 1 and 2: the first locks the range
\* of a 1..1000 start, the second sets an explicit range and the rules.
DemoScript ==
    (1 :> <<DictEntry(T_RAISE_MIN), DictEntry(T_RAISE_MIN)>>)
    @@ (2 :> <<SetRange(IntBound(5), IntBound(4000)),
               SetRules(<<BE_FOOD, BE_FOOD_VARIANT, NOT_BE_FOOD, BE_ALIVE>>)>>)

\* The same file without an entry for turn 1.
DemoScriptFromTurn2 == (2 :> DemoScript[2])

\* A file whose turns set the range: two bounds that are refused, then a
\* range narrow enough to be locked together with as many rules as fit, then
\* a second range on top of it and one more rule.
DemoScriptOfRanges ==
    (1 :> <<SetRange(IntBound(0), IntBound(10)), SetRange(IntBound(7), IntBound(7))>>)
    @@ (2 :> <<SetRange(IntBound(5), IntBound(400)),
               SetRules(<<BE_FOOD, BE_FOOD_VARIANT, NOT_BE_FOOD, BE_ALIVE>>)>>)
    @@ (3 :> <<SetRange(IntBound(5), IntBound(450)), AddRule(BE_ALIVE)>>)

NoScript == [t \in {} |-> <<>>]

\* The default of GameConfig.hold_allowed_after_turn.
hold_allowed_after_turn == 5

\* GameConfig(...) as the engine is built with: the defaults, a narrower
\* starting range, an earlier hold, and the demo mode with a script, with a
\* script that starts at turn 2, and without one (no demo_progression.json
\* to load).
Configs ==
    { [start_min_weight_g |-> 1, start_max_weight_g |-> 10000000,
       hold_allowed_after_turn |-> hold_allowed_after_turn,
       demo_mode |-> FALSE, demo_progression_turns |-> NoScript],
      [start_min_weight_g |-> 1, start_max_weight_g |-> 1000,
       hold_allowed_after_turn |-> hold_allowed_after_turn,
       demo_mode |-> FALSE, demo_progression_turns |-> NoScript],
      [start_min_weight_g |-> 1, start_max_weight_g |-> 100000,
       hold_allowed_after_turn |-> 1,
       demo_mode |-> FALSE, demo_progression_turns |-> NoScript],
      [start_min_weight_g |-> 1, start_max_weight_g |-> 1000,
       hold_allowed_after_turn |-> hold_allowed_after_turn,
       demo_mode |-> TRUE, demo_progression_turns |-> DemoScript],
      [start_min_weight_g |-> 1, start_max_weight_g |-> 1000,
       hold_allowed_after_turn |-> hold_allowed_after_turn,
       demo_mode |-> TRUE, demo_progression_turns |-> DemoScriptOfRanges],
      [start_min_weight_g |-> 1, start_max_weight_g |-> 1000,
       hold_allowed_after_turn |-> hold_allowed_after_turn,
       demo_mode |-> TRUE, demo_progression_turns |-> DemoScriptFromTurn2],
      [start_min_weight_g |-> 1, start_max_weight_g |-> 1000,
       hold_allowed_after_turn |-> hold_allowed_after_turn,
       demo_mode |-> TRUE, demo_progression_turns |-> NoScript] }

\* The pairs of GameEngine.CONTRADICTIONS.
CONTRADICTIONS ==
    { << <<"s", "t", "a", "r", "t", " ", "w", "i", "t", "h", " ", "a", " ",
           "c", "o", "n", "s", "o", "n", "a", "n", "t">>,
         <<"s", "t", "a", "r", "t", " ", "w", "i", "t", "h", " ", "a", " ",
           "v", "o", "w", "e", "l">> >>,
      << <<"b", "e", " ", "a", "l", "i", "v", "e">>,
         <<"b", "e", " ", "a", "n", " ", "o", "b", "j", "e", "c", "t">> >>,
      << <<"b", "e", " ", "f", "o", "o", "d">>,
         <<"n", "o", "t", " ", "b", "e", " ", "f", "o", "o", "d">> >>,
      << <<"S", "t", "a", "r", "t", "s", " ", "w", "i", "t", "h", " ",
           "c", "o", "n", "s", "o", "n", "a", "n", "t">>,
         <<"S", "t", "a", "r", "t", "s", " ", "w", "i", "t", "h", " ",
           "v", "o", "w", "e", "l">> >>,
      << <<"O", "b", "j", "e", "c", "t", ",", " ", "n", "o", "t", " ",
           "a", "l", "i", "v", "e">>,
         <<"I", "s", " ", "a", "l", "i", "v", "e">> >>,
      << <<"I", "s", " ", "f", "o", "o", "d">>,
         <<"N", "o", "t", " ", "f", "o", "o", "d">> >> }

\* The rule texts the model meets: those proposed (raw and normalized), those
\* of the judge's rule checks, and the contradiction table.
AllActionLists ==
    CalledActionLists
    \cup UNION {{c.demo_progression_turns[t] : t \in DOMAIN c.demo_progression_turns} :
                   c \in Configs}

AllEntries == UNION {{l[i] : i \in DOMAIN l} : l \in AllActionLists}

ProposedRules ==
    {e.rule : e \in AllEntries} \cup UNION {{e.rules[i] : i \in DOMAIN e.rules} : e \in AllEntries}

CheckRules ==
    UNION {{r.rule_checks[i].rule : i \in DOMAIN r.rule_checks} : r \in JudgeResponses}

RuleTexts ==
    ProposedRules \cup {normalize_rule(r) : r \in ProposedRules}
    \cup CheckRules \cup {strip(r) : r \in CheckRules}
    \cup UNION {{pair[1], pair[2]} : pair \in CONTRADICTIONS}

\* _rule_key, computed once for each of these texts.
RuleKeys == [value \in RuleTexts |-> rule_key(value)]

SeqRange(s) == {s[i] : i \in DOMAIN s}

\* _normalize_rule, computed once for each proposed rule text.
NormalizedRules == [rule \in ProposedRules \cup {<<>>} |-> normalize_rule(rule)]

\* Fault injection: the texts are compared as they are, not by _rule_key.
is_contradictory_exact_text(candidate, existing_rules) ==
    \E pair \in CONTRADICTIONS :
        \/ (candidate = pair[1] /\ pair[2] \in SeqRange(existing_rules))
        \/ (candidate = pair[2] /\ pair[1] \in SeqRange(existing_rules))

is_contradictory(candidate, existing_rules) ==
    LET candidate_key == RuleKeys[candidate]
        existing_keys == {RuleKeys[rule] : rule \in SeqRange(existing_rules)}
    IN  \E pair \in CONTRADICTIONS :
            LET a_key == RuleKeys[pair[1]]
                b_key == RuleKeys[pair[2]]
            IN  \/ (candidate_key = a_key /\ b_key \in existing_keys)
                \/ (candidate_key = b_key /\ a_key \in existing_keys)

(***************************************************************************)
(* GameConfig: the defaults of the dataclass.  The starting range, the    *)
(* demo flag and the demo script vary per engine and are held in the      *)
(* variable config.  The float factors are kept as exact fractions.       *)
(***************************************************************************)
start_lives == 3

max_rules == 3

rule_add_min_turn == 3

\* 0.2
max_shrink_factor == <<1, 5>>

\* 5.0
minimum_enlarge_factor == <<5, 1>>

max_progression_actions_per_turn == 2

end_command == <<"t", "i", "m", "e">>

hold_thin_boundary_span_g == 20000

\* 100.0
min_max_lock_ratio == 100

Max(a, b) == IF a >= b THEN a ELSE b

\* The largest power of ten m with m <= num / den (num > den > 0).
RECURSIVE magnitude_of(_, _, _)
magnitude_of(num, den, m) ==
    IF m * 10 * den <= num THEN magnitude_of(num, den, m * 10) ELSE m

\* max(1, int(nice * magnitude)), where nice comes from comparing
\* normalized = value / magnitude with 1.5, 3.5 and 7.5.
nice_times_magnitude(num, den, magnitude) ==
    Max(1, magnitude * (IF 2 * num < 3 * magnitude * den THEN 1
                        ELSE IF 2 * num < 7 * magnitude * den THEN 2
                        ELSE IF 2 * num < 15 * magnitude * den THEN 5
                        ELSE 10))

\* nice_round_weight(value) for value = num / den, den > 0.
nice_round_weight(num, den) ==
    IF num <= den THEN 1
    ELSE nice_times_magnitude(num, den, magnitude_of(num, den, 1))

(***************************************************************************)
(* Progression engine.                                                     *)
(*                                                                         *)
(* A proposed entry is [shape, type, rule, has_rules, rules, min_g,       *)
(* max_g]: shape is "str" (a bare string, held in type), "dict" or        *)
(* "other"; rule is a text or None; min_g / max_g are [kind, val] with    *)
(* kind "int", "numeric_str", "bool" or "missing".  An applied status is  *)
(* the tag of the code's status string (the text before any ':').         *)
(***************************************************************************)
Take(s, n) == SubSeq(s, 1, IF Len(s) < n THEN Len(s) ELSE n)

typed_entry(entry, action_type) ==
    IF action_type = <<>> THEN <<>>
    ELSE << [type |-> action_type, rule |-> entry.rule,
             has_rules |-> entry.has_rules, rules |-> entry.rules,
             min_g |-> entry.min_g, max_g |-> entry.max_g] >>

normalize_entry(entry) ==
    IF entry.shape = "str"
    THEN << [type |-> str_lower(strip(entry.type)), rule |-> None,
             has_rules |-> FALSE, rules |-> <<>>, min_g |-> NoBound, max_g |-> NoBound] >>
    ELSE IF entry.shape = "dict"
    THEN typed_entry(entry, str_lower(strip(entry.type)))
    ELSE <<>>

RECURSIVE normalize_entries(_)
normalize_entries(entries) ==
    IF entries = <<>> THEN <<>>
    ELSE normalize_entry(Head(entries)) \o normalize_entries(Tail(entries))

HoldAction ==
    [type |-> T_HOLD, rule |-> None, has_rules |-> FALSE, rules |-> <<>>,
     min_g |-> NoBound, max_g |-> NoBound]

hold_if_empty(normalized) == IF normalized = <<>> THEN <<HoldAction>> ELSE normalized

\* Fault injection: every entry of the proposal is kept.
normalize_progression_actions_without_limit(actions) ==
    hold_if_empty(normalize_entries(actions))

normalize_progression_actions(actions) ==
    hold_if_empty(normalize_entries(Take(actions, max_progression_actions_per_turn)))

\* _normalize_progression_actions, computed once for each proposed list.
NormalizedActions ==
    [actions \in AllActionLists |-> normalize_progression_actions(actions)]

range_span_g(p) == Max(0, p.max_g - p.min_g)

\* Fault injection: the lock target is the current max_g.
lock_target_max_g_unchanged(p) == p.max_g

lock_target_max_g(p) == Max(p.min_g + 1, p.min_g * min_max_lock_ratio)

should_lock_range(p) == p.max_g <= lock_target_max_g(p)

lock_range(p) ==
    [p EXCEPT !.max_g = lock_target_max_g(p),
              !.range_locked = TRUE,
              !.applied = Append(@, "lock_range")]

\* Fault injection: the span of the range is not looked at.
hold_allowed_now_by_turn_only(p) == p.turn > p.hold_allowed_after_turn

hold_allowed_now(p) ==
    /\ p.turn > p.hold_allowed_after_turn
    /\ range_span_g(p) <= hold_thin_boundary_span_g

skip(p, status) == [p EXCEPT !.applied = Append(@, status)]

\* The set_rules loop over raw_rules: a rule is skipped (continue), or
\* appended, and the loop is left once max_rules are kept.
RECURSIVE build_next_rules(_, _)
keep_rule(raw_rule, normalized_rule, rest, next_rules) ==
    IF \/ raw_rule = None
       \/ normalized_rule = None
       \/ normalized_rule \in SeqRange(next_rules)
       \/ is_contradictory(normalized_rule, next_rules)
    THEN build_next_rules(rest, next_rules)
    ELSE IF Len(next_rules) + 1 >= max_rules
    THEN Append(next_rules, normalized_rule)
    ELSE build_next_rules(rest, Append(next_rules, normalized_rule))

build_next_rules(raw_rules, next_rules) ==
    IF raw_rules = <<>> THEN next_rules
    ELSE keep_rule(Head(raw_rules), NormalizedRules[Head(raw_rules)], Tail(raw_rules), next_rules)

apply_set_rules(p, action, allow_set_rules) ==
    IF ~allow_set_rules THEN skip(p, "set_rules_skipped_not_allowed")
    ELSE IF ~action.has_rules THEN skip(p, "set_rules_skipped_invalid_values")
    ELSE [p EXCEPT !.active_rules = build_next_rules(action.rules, <<>>),
                   !.applied = Append(@, "set_rules")]

bound_is_number(b) == b.kind \in {"int", "numeric_str"}

set_bounds(p, new_min, new_max) ==
    IF new_min < 1 \/ new_max <= new_min
    THEN skip(p, "set_range_skipped_invalid_bounds")
    ELSE [p EXCEPT !.min_g = new_min,
                   !.max_g = new_max,
                   !.range_locked = FALSE,
                   !.set_range_applied = TRUE,
                   !.applied = Append(@, "set_range")]

\* Fault injection: set_range is applied whether allowed or not.
apply_set_range_in_any_mode(p, action, allow_set_range) ==
    IF ~(bound_is_number(action.min_g) /\ bound_is_number(action.max_g))
    THEN skip(p, "set_range_skipped_invalid_values")
    ELSE set_bounds(p, action.min_g.val, action.max_g.val)

apply_set_range(p, action, allow_set_range) ==
    IF ~allow_set_range THEN skip(p, "set_range_skipped_not_allowed")
    ELSE IF ~(bound_is_number(action.min_g) /\ bound_is_number(action.max_g))
    THEN skip(p, "set_range_skipped_invalid_values")
    ELSE set_bounds(p, action.min_g.val, action.max_g.val)

\* Fault injection: shrinking leaves max_g where it is.
shrunk_max_g_not_shrunk(p) == p.max_g

shrunk_max_g(p) ==
    Max(p.min_g + 1,
        nice_round_weight(p.max_g * max_shrink_factor[1], max_shrink_factor[2]))

raised_min_g(p) ==
    Max(1, nice_round_weight(p.min_g * minimum_enlarge_factor[1],
                             minimum_enlarge_factor[2]))

\* After a shrink_max or raise_min: lock and leave the loop, or go on.
lock_and_break(p) ==
    IF should_lock_range(p) THEN [lock_range(p) EXCEPT !.stopped = TRUE] ELSE p

apply_hold(p) ==
    IF p.range_locked THEN skip(p, "hold_skipped_range_locked")
    ELSE IF hold_allowed_now(p) THEN skip(p, "hold")
    ELSE [p EXCEPT !.max_g = shrunk_max_g(p),
                   !.applied = Append(@, "hold_replaced_with_shrink_max")]

\* Fault injection: shrink_max without the lock test and the break.
apply_shrink_max_without_lock(p) ==
    IF p.range_locked THEN skip(p, "shrink_max_skipped_range_locked")
    ELSE [p EXCEPT !.max_g = shrunk_max_g(p), !.applied = Append(@, "shrink_max")]

apply_shrink_max(p) ==
    IF p.range_locked THEN skip(p, "shrink_max_skipped_range_locked")
    ELSE lock_and_break([p EXCEPT !.max_g = shrunk_max_g(p),
                                  !.applied = Append(@, "shrink_max")])

\* Fault injection: raise_min without the range_locked test.
apply_raise_min_ignoring_lock(p) ==
    lock_and_break([p EXCEPT !.min_g = raised_min_g(p),
                             !.applied = Append(@, "raise_min")])

\* Fault injection: raise_min without the lock test and the break.
apply_raise_min_without_lock(p) ==
    IF p.range_locked THEN skip(p, "raise_min_skipped_range_locked")
    ELSE [p EXCEPT !.min_g = raised_min_g(p), !.applied = Append(@, "raise_min")]

apply_raise_min(p) ==
    IF p.range_locked THEN skip(p, "raise_min_skipped_range_locked")
    ELSE lock_and_break([p EXCEPT !.min_g = raised_min_g(p),
                                  !.applied = Append(@, "raise_min")])

append_rule(p, normalized_rule) ==
    IF normalized_rule = None THEN skip(p, "add_rule_skipped_invalid_rule")
    ELSE IF normalized_rule \in SeqRange(p.active_rules)
    THEN skip(p, "add_rule_skipped_duplicate")
    ELSE IF is_contradictory(normalized_rule, p.active_rules)
    THEN skip(p, "add_rule_skipped_contradiction")
    ELSE [p EXCEPT !.active_rules = Append(@, normalized_rule),
                   !.applied = Append(@, "add_rule")]

\* Fault injection: add_rule without the max_rules test.
apply_add_rule_without_max_rules_test(p, action) ==
    IF p.turn < rule_add_min_turn THEN skip(p, "add_rule_skipped_too_early")
    ELSE append_rule(p, NormalizedRules[IF action.rule = None THEN <<>> ELSE action.rule])

apply_add_rule(p, action) ==
    IF p.turn < rule_add_min_turn THEN skip(p, "add_rule_skipped_too_early")
    ELSE IF Len(p.active_rules) >= max_rules THEN skip(p, "add_rule_skipped_max_rules")
    ELSE append_rule(p, NormalizedRules[IF action.rule = None THEN <<>> ELSE action.rule])

apply_action(p, action, allow_set_range, allow_set_rules) ==
    IF action.type = T_SET_RULES THEN apply_set_rules(p, action, allow_set_rules)
    ELSE IF action.type = T_SET_RANGE THEN apply_set_range(p, action, allow_set_range)
    ELSE IF action.type = T_HOLD THEN apply_hold(p)
    ELSE IF action.type = T_SHRINK_MAX THEN apply_shrink_max(p)
    ELSE IF action.type = T_RAISE_MIN THEN apply_raise_min(p)
    ELSE IF action.type = T_ADD_RULE THEN apply_add_rule(p, action)
    ELSE skip(p, "unknown_action")

\* The for loop over the normalized actions, left early by a break.
RECURSIVE apply_actions(_, _, _, _)
apply_actions(p, actions, allow_set_range, allow_set_rules) ==
    IF actions = <<>> \/ p.stopped THEN p
    ELSE apply_actions(apply_action(p, Head(actions), allow_set_range, allow_set_rules),
                       Tail(actions), allow_set_range, allow_set_rules)

has_set_range_action(actions) == \E i \in DOMAIN actions : actions[i].type = T_SET_RANGE

\* The lock before the loop.
pre_progression(p, actions) ==
    IF ~has_set_range_action(actions) /\ ~p.range_locked /\ should_lock_range(p)
    THEN lock_range(p) ELSE p

\* Fault injection: the lock after the loop, a set_range applied or not.
post_progression_after_set_range(p) ==
    IF ~p.range_locked /\ should_lock_range(p) THEN lock_range(p) ELSE p

\* Fault injection: no lock after the loop.
post_progression_without_lock(p) == p

\* The lock after the loop.
post_progression(p) ==
    IF ~p.set_range_applied /\ ~p.range_locked /\ should_lock_range(p)
    THEN lock_range(p) ELSE p

\* The invalid-bounds fallback, and the returned list.
end_progression(s, p) ==
    IF p.min_g >= p.max_g
    THEN [min_g |-> s.min_g, max_g |-> s.max_g, active_rules |-> s.active_rules,
          range_locked |-> p.range_locked,
          applied |-> <<"hold_fallback_invalid_bounds">>]
    ELSE [min_g |-> p.min_g, max_g |-> p.max_g, active_rules |-> p.active_rules,
          range_locked |-> p.range_locked,
          applied |-> IF p.applied = <<>> THEN <<"hold">> ELSE p.applied]

start_progression(s) ==
    [turn |-> s.turn, min_g |-> s.min_g, max_g |-> s.max_g,
     active_rules |-> s.active_rules, range_locked |-> s.range_locked,
     hold_allowed_after_turn |-> s.hold_allowed_after_turn,
     applied |-> <<>>, set_range_applied |-> FALSE, stopped |-> FALSE]

\* The lock before the loop, the loop, the lock after it and the end, each
\* computed once from the outcome of the one before.
run_progression(s, actions, allow_set_range, allow_set_rules) ==
    CHOOSE ended \in
        {end_progression(s, checked) :
            checked \in {post_progression(looped) :
                looped \in {apply_actions(started, actions,
                                          allow_set_range, allow_set_rules) :
                    started \in {pre_progression(start_progression(s), actions)}}}} :
        TRUE

\* _apply_progression on the engine state s = [turn, min_g, max_g,
\* active_rules, range_locked, hold_allowed_after_turn]; the result holds the new min_g, max_g,
\* active_rules, range_locked and the returned list applied.
apply_progression(s, proposed_actions, allow_set_range, allow_set_rules) ==
    run_progression(s, NormalizedActions[proposed_actions],
                    allow_set_range, allow_set_rules)

(***************************************************************************)
(* Judgment normalizer / validator and submission evaluator.               *)
(*                                                                         *)
(* A judge response is [raises, canonical_name, estimated_weight_g,       *)
(* cheating, rule_checks_is_list, rule_checks]: raises is the judge call  *)
(* throwing; estimated_weight_g is [kind, val] with kind "num" or         *)
(* "invalid"; a boolean-like value is [kind, bool, text] with kind        *)
(* "bool", "str" or "other"; a rule check is [is_dict, rule, ok].         *)
(***************************************************************************)
TRUE_WORDS ==
    { <<"t", "r", "u", "e">>, <<"y", "e", "s">>, <<"c", "o", "r", "r", "e", "c", "t">>,
      <<"p", "a", "s", "s">>, <<"o", "k">> }

FALSE_WORDS ==
    { <<"f", "a", "l", "s", "e">>, <<"n", "o">>, <<"w", "r", "o", "n", "g">>,
      <<"f", "a", "i", "l">>, <<"k", "o">> }

\* _coerce_bool: whether it returns, and what.
coerce_bool_ok(value) ==
    \/ value.kind = "bool"
    \/ /\ value.kind = "str"
       /\ str_lower(strip(value.text)) \in TRUE_WORDS \cup FALSE_WORDS

coerce_bool(value) ==
    IF value.kind = "bool" THEN value.bool
    ELSE str_lower(strip(value.text)) \in TRUE_WORDS

rule_check_ok(entry) ==
    /\ entry.is_dict
    /\ entry.rule # None
    /\ strip(entry.rule) # <<>>
    /\ coerce_bool_ok(entry.ok)

RECURSIVE normalize_rule_checks(_)
normalize_rule_checks(entries) ==
    IF entries = <<>> THEN <<>>
    ELSE << [rule |-> strip(Head(entries).rule), ok |-> coerce_bool(Head(entries).ok)] >>
         \o normalize_rule_checks(Tail(entries))

JudgeError == [error |-> TRUE, canonical_name |-> <<>>, estimated_weight_g |-> 0,
               cheating |-> FALSE, rule_checks |-> <<>>]

\* _normalize_judge_payload; error is a raised ValueError.
normalize_judge_payload(payload, raw_input) ==
    LET canonical_raw == IF payload.canonical_name = None
                            \/ strip(payload.canonical_name) = <<>>
                         THEN raw_input ELSE payload.canonical_name
    IN  IF payload.estimated_weight_g.kind # "num" THEN JudgeError
        ELSE IF ~payload.rule_checks_is_list THEN JudgeError
        ELSE IF \E i \in DOMAIN payload.rule_checks : ~rule_check_ok(payload.rule_checks[i])
        THEN JudgeError
        ELSE IF ~coerce_bool_ok(payload.cheating) THEN JudgeError
        ELSE [error |-> FALSE,
              canonical_name |-> canonicalize(canonical_raw),
              estimated_weight_g |-> Max(1, payload.estimated_weight_g.val),
              cheating |-> coerce_bool(payload.cheating),
              rule_checks |-> normalize_rule_checks(payload.rule_checks)]

\* Fault injection: the active rules are not looked at.
validate_judge_payload_without_rules(judge, rules) == TRUE

\* _validate_judge_payload: TRUE when it returns without raising.
validate_judge_payload(judge, rules) ==
    LET checks_by_rule == {RuleKeys[judge.rule_checks[i].rule] : i \in DOMAIN judge.rule_checks}
        missing_rule_checks == {i \in DOMAIN rules : RuleKeys[rules[i]] \notin checks_by_rule}
    IN  missing_rule_checks = {}

\* str(input_text or "").strip() of each submitted text.
RawInputs == {strip(t) : t \in InputTexts}

\* _normalize_judge_payload, computed once for each raw input and response.
Judgments ==
    [raw_input \in RawInputs |->
        [payload \in JudgeResponses |-> normalize_judge_payload(payload, raw_input)]]

\* One pass of the retry loop ends in "judge.ok".
attempt_ok(payload, raw_input, rules) ==
    /\ ~payload.raises
    /\ ~Judgments[raw_input][payload].error
    /\ validate_judge_payload(Judgments[raw_input][payload], rules)

\* slugify(canonical_name) or canonical_name.strip().lower() or slugify(raw_input)
canonical_key_of(canonical_name, raw_input) ==
    IF slugify(canonical_name) # <<>> THEN slugify(canonical_name)
    ELSE IF str_lower(strip(canonical_name)) # <<>> THEN str_lower(strip(canonical_name))
    ELSE slugify(raw_input)

CanonicalKeys ==
    [raw_input \in RawInputs |->
        [payload \in JudgeResponses |->
            canonical_key_of(Judgments[raw_input][payload].canonical_name, raw_input)]]

\* slugify(raw) or raw.lower()
raw_key_of(raw) == IF slugify(raw) # <<>> THEN slugify(raw) ELSE str_lower(raw)

\* Fault injection: no raw key to record.
effective_raw_key_dropped(raw_key, raw_input) == <<>>

\* raw_key or slugify(raw_input) or raw_input.lower().strip()
effective_raw_key_of(raw_key, raw_input) ==
    IF raw_key # <<>> THEN raw_key
    ELSE IF slugify(raw_input) # <<>> THEN slugify(raw_input)
    ELSE strip(str_lower(raw_input))

\* What submit and _run_turn derive from the text alone, computed once.
Submitted ==
    [input_text \in InputTexts |->
        LET raw == strip(input_text)
        IN  [raw |-> raw,
             is_end_command |-> str_lower(raw) = end_command,
             raw_key |-> raw_key_of(raw),
             effective_raw_key |-> effective_raw_key_of(raw_key_of(raw), raw)]]

\* The same, by raw text: the raw key of each, the canonical key of each
\* canonical name a judgment can carry, and the texts that are the end command.
RawKeys == [raw \in RawInputs |-> raw_key_of(raw)]

KeysOfNames ==
    [canonical_name \in {Judgments[raw_input][payload].canonical_name :
                             raw_input \in RawInputs, payload \in JudgeResponses} |->
        [raw_input \in RawInputs |-> canonical_key_of(canonical_name, raw_input)]]

EndCommands == {raw \in RawInputs : str_lower(raw) = end_command}

\* Fault injection: a check is looked up by the exact text of its rule.
first_check_by_exact_text(rule_checks, key) ==
    LET hits == {i \in DOMAIN rule_checks : rule_checks[i].rule = key /\ key # <<>>}
    IN  IF hits = {} THEN 0 ELSE CHOOSE i \in hits : \A j \in hits : i <= j

\* checks_by_rule.get(key): the first entry whose non-empty key is key.
first_check(rule_checks, key) ==
    LET hits == {i \in DOMAIN rule_checks :
                    RuleKeys[rule_checks[i].rule] = key /\ key # <<>>}
    IN  IF hits = {} THEN 0 ELSE CHOOSE i \in hits : \A j \in hits : i <= j

rule_failed(rule_checks, rule) ==
    LET i == first_check(rule_checks, RuleKeys[rule])
    IN  i = 0 \/ ~rule_checks[i].ok

RECURSIVE failed_rules_of(_, _)
failed_rules_of(rule_checks, rules) ==
    IF rules = <<>> THEN <<>>
    ELSE (IF rule_failed(rule_checks, Head(rules)) THEN <<Head(rules)>> ELSE <<>>)
         \o failed_rules_of(rule_checks, Tail(rules))

CHEATING == <<"c", "h", "e", "a", "t", "i", "n", "g">>

\* _evaluate_submission against the range and rules of s.
\* Fault injection: cheating does not fail the turn.
evaluation_of_ignoring_cheating(cheating, within_range, failed_rules) ==
    [passed |-> within_range /\ Len(failed_rules) = 0,
     within_range |-> within_range,
     rules_ok |-> Len(failed_rules) = 0,
     failed_rules |-> failed_rules,
     reason |-> IF cheating THEN "cheating"
                ELSE IF ~within_range THEN "outside_range"
                ELSE IF failed_rules # <<>> THEN "rule_failed"
                ELSE "within_range_and_rules_satisfied",
     rule_fail |-> IF cheating THEN CHEATING
                   ELSE IF ~within_range THEN None
                   ELSE IF failed_rules # <<>> THEN failed_rules[1]
                   ELSE None]

\* Fault injection: the range is looked at before cheating.
evaluation_of_range_before_cheating(cheating, within_range, failed_rules) ==
    [passed |-> (~cheating) /\ within_range /\ Len(failed_rules) = 0,
     within_range |-> within_range,
     rules_ok |-> Len(failed_rules) = 0,
     failed_rules |-> failed_rules,
     reason |-> IF ~within_range THEN "outside_range"
                ELSE IF cheating THEN "cheating"
                ELSE IF failed_rules # <<>> THEN "rule_failed"
                ELSE "within_range_and_rules_satisfied",
     rule_fail |-> IF ~within_range THEN None
                   ELSE IF cheating THEN CHEATING
                   ELSE IF failed_rules # <<>> THEN failed_rules[1]
                   ELSE None]

\* The verdict of _evaluate_submission from its three ingredients.
evaluation_of(cheating, within_range, failed_rules) ==
    [passed |-> (~cheating) /\ within_range /\ Len(failed_rules) = 0,
     within_range |-> within_range,
     rules_ok |-> Len(failed_rules) = 0,
     failed_rules |-> failed_rules,
     reason |-> IF cheating THEN "cheating"
                ELSE IF ~within_range THEN "outside_range"
                ELSE IF failed_rules # <<>> THEN "rule_failed"
                ELSE "within_range_and_rules_satisfied",
     rule_fail |-> IF cheating THEN CHEATING
                   ELSE IF ~within_range THEN None
                   ELSE IF failed_rules # <<>> THEN failed_rules[1]
                   ELSE None]

\* _evaluate_submission against the range and rules of s.
evaluate_submission(s, estimated_weight_g, rule_checks, cheating) ==
    evaluation_of(cheating,
                  s.min_g <= estimated_weight_g /\ estimated_weight_g <= s.max_g,
                  failed_rules_of(rule_checks, s.active_rules))

\* Fault injection: both conditions are asked for.
points_for_pass_both(s) ==
    IF s.max_g <= 1000 /\ Len(s.active_rules) >= 2 THEN 3 ELSE 1

points_for_pass(s) ==
    IF s.max_g <= 1000 \/ Len(s.active_rules) >= 2 THEN 3 ELSE 1

(***************************************************************************)
(* The engine: GameState, the configuration it was built with, the result *)
(* of the last call while the server hands it to the client, and two logs  *)
(* kept only when logging is on: the raw texts the run was given, and the  *)
(* raw keys of the run that the last reset discarded.  Around it the       *)
(* server: ENGINE_LOCK, and the place each handler thread has reached.     *)
(***************************************************************************)
VARIABLES config, turn, score, lives, min_g, max_g, active_rules, used_input_keys,
          used_canonical, demo_progression_turn, range_locked, game_over,
          game_over_reason, result, submitted, previous_run, ENGINE_LOCK,
          handlers

state_vars == <<turn, score, lives, min_g, max_g, active_rules, used_input_keys,
                used_canonical, demo_progression_turn, range_locked, game_over,
                game_over_reason>>

vars == <<config, turn, score, lives, min_g, max_g, active_rules, used_input_keys,
          used_canonical, demo_progression_turn, range_locked, game_over,
          game_over_reason, result, submitted, previous_run, ENGINE_LOCK,
          handlers>>

server_vars == <<ENGINE_LOCK, handlers>>

MaxHandlers == 2

\* The handler threads of ThreadingHTTPServer.
Handlers == 1..MaxHandlers

\* ENGINE_LOCK when no thread holds it; otherwise it is the holder.
Free == 0

\* A thread that serves no request.
Idle == [pc |-> "idle", path |-> ""]

\* No call is being answered.  raw is the text of the call; attempts holds,
\* for each judge invocation of the call, whether its response was accepted;
\* canonical_name, weight_g, cheating and rule_checks are those of the accepted
\* judgment.
NoResult ==
    [type |-> "none", raw |-> <<>>, pass |-> FALSE, canonical_name |-> <<>>,
     weight_g |-> 0, reason |-> "none", rule_fail |-> None,
     progression_actions |-> <<>>, attempts |-> <<>>, cheating |-> FALSE,
     rule_checks |-> <<>>]

\* The log is off.
NoLog == {None}

\* Fault injection: max_g is filled from start_min_weight_g.
NewGameState_max_from_min ==
    /\ turn' = 1
    /\ score' = 0
    /\ lives' = start_lives
    /\ min_g' = config.start_min_weight_g
    /\ max_g' = config.start_min_weight_g
    /\ active_rules' = <<>>
    /\ used_input_keys' = {}
    /\ used_canonical' = {}
    /\ demo_progression_turn' = 1
    /\ range_locked' = FALSE
    /\ game_over' = FALSE
    /\ game_over_reason' = "None"

\* Fault injection: the used raw keys survive the new GameState.
NewGameState_keeping_used_keys ==
    /\ turn' = 1
    /\ score' = 0
    /\ lives' = start_lives
    /\ min_g' = config.start_min_weight_g
    /\ max_g' = config.start_max_weight_g
    /\ active_rules' = <<>>
    /\ used_input_keys' = used_input_keys
    /\ used_canonical' = {}
    /\ demo_progression_turn' = 1
    /\ range_locked' = FALSE
    /\ game_over' = FALSE
    /\ game_over_reason' = "None"

\* GameState(lives=..., min_g=..., max_g=...)
NewGameState ==
    /\ turn' = 1
    /\ score' = 0
    /\ lives' = start_lives
    /\ min_g' = config.start_min_weight_g
    /\ max_g' = config.start_max_weight_g
    /\ active_rules' = <<>>
    /\ used_input_keys' = {}
    /\ used_canonical' = {}
    /\ demo_progression_turn' = 1
    /\ range_locked' = FALSE
    /\ game_over' = FALSE
    /\ game_over_reason' = "None"

\* GameEngine.__init__ with the configuration c.
Constructed(c) ==
    /\ config = c
    /\ turn = 1
    /\ score = 0
    /\ lives = start_lives
    /\ min_g = c.start_min_weight_g
    /\ max_g = c.start_max_weight_g
    /\ active_rules = <<>>
    /\ used_input_keys = {}
    /\ used_canonical = {}
    /\ demo_progression_turn = 1
    /\ range_locked = FALSE
    /\ game_over = FALSE
    /\ game_over_reason = "None"
    /\ result = NoResult
    /\ ENGINE_LOCK = Free
    /\ handlers = [t \in Handlers |-> Idle]

Init ==
    /\ \E c \in Configs : Constructed(c)
    /\ submitted = NoLog
    /\ previous_run = NoLog

\* The state as the operators above read it.
State ==
    [turn |-> turn, min_g |-> min_g, max_g |-> max_g, active_rules |-> active_rules,
     range_locked |-> range_locked,
     hold_allowed_after_turn |-> config.hold_allowed_after_turn]

demo_actions_for_turn(t) ==
    IF t \in DOMAIN config.demo_progression_turns
    THEN config.demo_progression_turns[t]
    ELSE DEFAULT_DEMO_ACTIONS

demo_final_turn ==
    CHOOSE t \in DOMAIN config.demo_progression_turns :
        \A u \in DOMAIN config.demo_progression_turns : u <= t

\* Fault injection: the win is declared on reaching the final scripted turn.
demo_win_reached_at_final_turn ==
    /\ config.demo_mode
    /\ DOMAIN config.demo_progression_turns # {}
    /\ demo_progression_turn >= demo_final_turn

demo_win_reached ==
    /\ config.demo_mode
    /\ DOMAIN config.demo_progression_turns # {}
    /\ demo_progression_turn > demo_final_turn

\* A return that leaves GameState as it is.
Return(type, raw, canonical_name, attempts) ==
    /\ result' = [NoResult EXCEPT !.type = type, !.raw = raw,
                                  !.canonical_name = canonical_name,
                                  !.attempts = attempts]
    /\ UNCHANGED state_vars

\* ENGINE.reset()
reset ==
    /\ NewGameState
    /\ result' = [NoResult EXCEPT !.type = "state"]
    /\ submitted' = IF submitted = NoLog THEN NoLog ELSE {}
    /\ previous_run' = IF previous_run = NoLog THEN NoLog ELSE used_input_keys
    /\ UNCHANGED config

\* POST /api/start, the lock taken and released within the step
Reset ==
    /\ result = NoResult
    /\ reset
    /\ UNCHANGED server_vars

\* What a call that got a judgment accepted answers with.
judged_result(type, raw_input, judge, attempts) ==
    [NoResult EXCEPT !.type = type, !.raw = raw_input,
                     !.canonical_name = judge.canonical_name,
                     !.weight_g = judge.estimated_weight_g,
                     !.cheating = judge.cheating,
                     !.rule_checks = judge.rule_checks,
                     !.attempts = attempts]

turn_result(raw_input, judge, attempts, evaluation, applied) ==
    [judged_result("turn_result", raw_input, judge, attempts)
        EXCEPT !.pass = evaluation.passed,
               !.reason = evaluation.reason,
               !.rule_fail = evaluation.rule_fail,
               !.progression_actions = applied]

\* Fault injection: the demo counter advances in any mode.
Progress_counting_in_any_mode(raw_input, judge, attempts, evaluation, p) ==
    /\ result' = turn_result(raw_input, judge, attempts, evaluation, p.applied)
    /\ min_g' = p.min_g
    /\ max_g' = p.max_g
    /\ active_rules' = p.active_rules
    /\ range_locked' = p.range_locked
    /\ demo_progression_turn' = demo_progression_turn + 1

\* The outcome p of _apply_progression is stored, the demo counter advances,
\* and the returned list goes into the turn_result.
Progress(raw_input, judge, attempts, evaluation, p) ==
    /\ result' = turn_result(raw_input, judge, attempts, evaluation, p.applied)
    /\ min_g' = p.min_g
    /\ max_g' = p.max_g
    /\ active_rules' = p.active_rules
    /\ range_locked' = p.range_locked
    /\ demo_progression_turn' =
           IF config.demo_mode THEN demo_progression_turn + 1 ELSE demo_progression_turn

\* The branch of a passing turn, with the no_lives check that follows it.
Pass(raw_input, judge, attempts, evaluation) ==
    /\ score' = score + points_for_pass(State)
    /\ lives' = lives
    /\ IF demo_win_reached
       THEN /\ game_over' = TRUE
            /\ game_over_reason' = IF lives <= 0 THEN "no_lives" ELSE "demo_win"
            /\ result' = turn_result(raw_input, judge, attempts, evaluation, <<>>)
            /\ UNCHANGED <<min_g, max_g, active_rules, range_locked,
                           demo_progression_turn>>
       ELSE /\ \E proposed_actions \in
                  (IF config.demo_mode
                   THEN {demo_actions_for_turn(demo_progression_turn)}
                   ELSE ProposedActionLists) :
                  Progress(raw_input, judge, attempts, evaluation,
                           apply_progression(State, proposed_actions,
                                             config.demo_mode, config.demo_mode))
            /\ game_over' = (game_over \/ lives <= 0)
            /\ game_over_reason' = IF lives <= 0 THEN "no_lives" ELSE game_over_reason

\* Fault injection: a failing turn costs no life.
Fail_keeping_lives(raw_input, judge, attempts, evaluation) ==
    /\ lives' = lives
    /\ score' = score
    /\ game_over' = (lives <= 0)
    /\ game_over_reason' = IF lives <= 0 THEN "no_lives" ELSE game_over_reason
    /\ result' = turn_result(raw_input, judge, attempts, evaluation, <<>>)
    /\ UNCHANGED <<min_g, max_g, active_rules, range_locked, demo_progression_turn>>

\* Fault injection: a failing turn without the no_lives check.
Fail_without_no_lives_check(raw_input, judge, attempts, evaluation) ==
    /\ lives' = lives - 1
    /\ score' = score
    /\ result' = turn_result(raw_input, judge, attempts, evaluation, <<>>)
    /\ UNCHANGED <<min_g, max_g, active_rules, range_locked, demo_progression_turn,
                   game_over, game_over_reason>>

\* The branch of a failing turn, with the no_lives check that follows it.
Fail(raw_input, judge, attempts, evaluation) ==
    /\ lives' = lives - 1
    /\ score' = score
    /\ game_over' = (lives - 1 <= 0)
    /\ game_over_reason' = IF lives - 1 <= 0 THEN "no_lives" ELSE game_over_reason
    /\ result' = turn_result(raw_input, judge, attempts, evaluation, <<>>)
    /\ UNCHANGED <<min_g, max_g, active_rules, range_locked, demo_progression_turn>>

\* Fault injection: the turn counter advances on passing turns only.
Score_counting_passes(raw_input, judge, attempts, evaluation) ==
    /\ turn' = IF evaluation.passed THEN turn + 1 ELSE turn
    /\ IF evaluation.passed
       THEN Pass(raw_input, judge, attempts, evaluation)
       ELSE Fail(raw_input, judge, attempts, evaluation)

\* The pass and fail branches of _run_turn, up to the returned turn_result.
Score(raw_input, judge, attempts, evaluation) ==
    /\ turn' = turn + 1
    /\ IF evaluation.passed
       THEN Pass(raw_input, judge, attempts, evaluation)
       ELSE Fail(raw_input, judge, attempts, evaluation)

\* The rest of _run_turn once the keys are recorded and the asset resolved.
Resolve(raw_input, judge, attempts) ==
    Score(raw_input, judge, attempts,
          evaluate_submission(State, judge.estimated_weight_g, judge.rule_checks,
                              judge.cheating))

\* Fault injection: the canonical key is never found.
duplicate_canonical_missed(canonical_key) == FALSE

\* canonical_key in self.state.used_canonical
duplicate_canonical(canonical_key) == canonical_key \in used_canonical

\* Fault injection: the raw key is recorded before the canonical key is
\* looked up.
Judged_recording_the_key_first(input_text, payload, attempts) ==
    LET raw_input == Submitted[input_text].raw
        judge == Judgments[raw_input][payload]
        canonical_key == CanonicalKeys[raw_input][payload]
        effective_raw_key == Submitted[input_text].effective_raw_key
    IN  IF duplicate_canonical(canonical_key)
        THEN /\ result' = judged_result("duplicate_input", raw_input, judge, attempts)
             /\ used_input_keys' = IF effective_raw_key # <<>>
                                   THEN used_input_keys \cup {effective_raw_key}
                                   ELSE used_input_keys
             /\ UNCHANGED <<turn, score, lives, min_g, max_g, active_rules, used_canonical,
                            demo_progression_turn, range_locked, game_over,
                            game_over_reason>>
        ELSE /\ used_canonical' = used_canonical \cup {canonical_key}
             /\ used_input_keys' = IF effective_raw_key # <<>>
                                   THEN used_input_keys \cup {effective_raw_key}
                                   ELSE used_input_keys
             /\ \/ Resolve(raw_input, judge, attempts)
                \/ /\ result' = judged_result("error_asset", raw_input, judge, attempts)
                   /\ UNCHANGED <<turn, score, lives, min_g, max_g, active_rules,
                                  demo_progression_turn, range_locked, game_over,
                                  game_over_reason>>

\* Fault injection: recording a canonical key drops the older ones.
Judged_forgetting_older_keys(input_text, payload, attempts) ==
    LET raw_input == Submitted[input_text].raw
        judge == Judgments[raw_input][payload]
        canonical_key == CanonicalKeys[raw_input][payload]
        effective_raw_key == Submitted[input_text].effective_raw_key
    IN  IF duplicate_canonical(canonical_key)
        THEN /\ result' = judged_result("duplicate_input", raw_input, judge, attempts)
             /\ UNCHANGED state_vars
        ELSE /\ used_canonical' = {canonical_key}
             /\ used_input_keys' = IF effective_raw_key # <<>>
                                   THEN used_input_keys \cup {effective_raw_key}
                                   ELSE used_input_keys
             /\ \/ Resolve(raw_input, judge, attempts)
                \/ /\ result' = judged_result("error_asset", raw_input, judge, attempts)
                   /\ UNCHANGED <<turn, score, lives, min_g, max_g, active_rules,
                                  demo_progression_turn, range_locked, game_over,
                                  game_over_reason>>

\* _run_turn from the accepted judgment on.
Judged(input_text, payload, attempts) ==
    LET raw_input == Submitted[input_text].raw
        judge == Judgments[raw_input][payload]
        canonical_key == CanonicalKeys[raw_input][payload]
        effective_raw_key == Submitted[input_text].effective_raw_key
    IN  IF duplicate_canonical(canonical_key)
        THEN /\ result' = judged_result("duplicate_input", raw_input, judge, attempts)
             /\ UNCHANGED state_vars
        ELSE /\ used_canonical' = used_canonical \cup {canonical_key}
             /\ used_input_keys' = IF effective_raw_key # <<>>
                                   THEN used_input_keys \cup {effective_raw_key}
                                   ELSE used_input_keys
             /\ \/ Resolve(raw_input, judge, attempts)
                \/ \* asset_pipeline.resolve_or_generate raises
                   /\ result' = judged_result("error_asset", raw_input, judge, attempts)
                   /\ UNCHANGED <<turn, score, lives, min_g, max_g, active_rules,
                                  demo_progression_turn, range_locked, game_over,
                                  game_over_reason>>

\* Fault injection: the raw key is recorded before the judge is asked.
JudgeFailed_key_recorded(raw_input) ==
    /\ result' = [NoResult EXCEPT !.type = "error_judge", !.raw = raw_input,
                                  !.attempts = <<FALSE, FALSE>>]
    /\ used_input_keys' = used_input_keys \cup {raw_key_of(raw_input)}
    /\ UNCHANGED <<turn, score, lives, min_g, max_g, active_rules, used_canonical,
                   demo_progression_turn, range_locked, game_over, game_over_reason>>

\* "OpenAI judge failed after retry": the RuntimeError leaves _run_turn.
JudgeFailed(raw_input) == Return("error_judge", raw_input, <<>>, <<FALSE, FALSE>>)

\* _run_turn: the retry loop.  A failed first attempt leaves nothing behind
\* but the second call, so which response failed does not matter.
RunTurn(input_text) ==
    LET raw_input == Submitted[input_text].raw
    IN  \/ \E payload \in JudgeResponses :
              /\ attempt_ok(payload, raw_input, active_rules)
              /\ Judged(input_text, payload, <<TRUE>>)
        \/ /\ \E failed \in JudgeResponses : ~attempt_ok(failed, raw_input, active_rules)
           /\ \E payload \in JudgeResponses :
                 IF attempt_ok(payload, raw_input, active_rules)
                 THEN Judged(input_text, payload, <<FALSE, TRUE>>)
                 ELSE JudgeFailed(raw_input)

\* Fault injection: the duplicate test comes before the end command test.
SubmitInPlay_duplicate_first(input_text) ==
    IF Submitted[input_text].raw = <<>> THEN Return("empty_input", <<>>, <<>>, <<>>)
    ELSE IF Submitted[input_text].raw_key \in used_input_keys
    THEN Return("duplicate_input", Submitted[input_text].raw,
                Submitted[input_text].raw, <<>>)
    ELSE IF Submitted[input_text].is_end_command
    THEN /\ game_over' = TRUE
         /\ game_over_reason' = "end_command"
         /\ result' = [NoResult EXCEPT !.type = "end_command",
                                       !.raw = Submitted[input_text].raw]
         /\ UNCHANGED <<turn, score, lives, min_g, max_g, active_rules,
                        used_input_keys, used_canonical,
                        demo_progression_turn, range_locked>>
    ELSE RunTurn(input_text)

\* Fault injection: submit without the used_input_keys test.
SubmitInPlay_without_raw_key_test(input_text) ==
    IF Submitted[input_text].raw = <<>> THEN Return("empty_input", <<>>, <<>>, <<>>)
    ELSE IF Submitted[input_text].is_end_command
    THEN /\ game_over' = TRUE
         /\ game_over_reason' = "end_command"
         /\ result' = [NoResult EXCEPT !.type = "end_command",
                                       !.raw = Submitted[input_text].raw]
         /\ UNCHANGED <<turn, score, lives, min_g, max_g, active_rules,
                        used_input_keys, used_canonical,
                        demo_progression_turn, range_locked>>
    ELSE RunTurn(input_text)

\* GameEngine.submit(input_text) while the game is on.
SubmitInPlay(input_text) ==
    IF Submitted[input_text].raw = <<>> THEN Return("empty_input", <<>>, <<>>, <<>>)
    ELSE IF Submitted[input_text].is_end_command
    THEN /\ game_over' = TRUE
         /\ game_over_reason' = "end_command"
         /\ result' = [NoResult EXCEPT !.type = "end_command",
                                       !.raw = Submitted[input_text].raw]
         /\ UNCHANGED <<turn, score, lives, min_g, max_g, active_rules,
                        used_input_keys, used_canonical,
                        demo_progression_turn, range_locked>>
    ELSE IF Submitted[input_text].raw_key \in used_input_keys
    THEN Return("duplicate_input", Submitted[input_text].raw,
                Submitted[input_text].raw, <<>>)
    ELSE RunTurn(input_text)

\* Fault injection: submit without the game_over test.
SubmitText_ignoring_game_over(input_text) == SubmitInPlay(input_text)

\* GameEngine.submit(input_text)
SubmitText(input_text) ==
    IF game_over THEN Return("game_over", Submitted[input_text].raw, <<>>, <<>>)
    ELSE SubmitInPlay(input_text)

\* A text counts as given to the run when the game is on and it is neither
\* blank nor the end command.
Logged(input_text) ==
    IF \/ submitted = NoLog
       \/ game_over
       \/ Submitted[input_text].raw = <<>>
       \/ Submitted[input_text].is_end_command
    THEN submitted
    ELSE submitted \cup {Submitted[input_text].raw}

\* ENGINE.submit(input_text)
submit ==
    /\ UNCHANGED <<config, previous_run>>
    /\ \E input_text \in InputTexts :
          /\ SubmitText(input_text)
          /\ submitted' = Logged(input_text)

\* POST /api/submit, the lock taken and released within the step
Submit ==
    /\ result = NoResult
    /\ submit
    /\ UNCHANGED server_vars

\* The handler sends the JSON body; the engine is free for the next call.
SendJson ==
    /\ result # NoResult
    /\ result' = NoResult
    /\ UNCHANGED <<config, state_vars, submitted, previous_run, server_vars>>

Next == Submit \/ Reset \/ SendJson

Spec == Init /\ [][Next]_vars

\* The same engine, built with the 1..1000 configuration, with the log on.
InitLogged ==
    /\ Constructed([start_min_weight_g |-> 1, start_max_weight_g |-> 1000,
                    hold_allowed_after_turn |-> hold_allowed_after_turn,
                    demo_mode |-> FALSE, demo_progression_turns |-> NoScript])
    /\ submitted = {}
    /\ previous_run = NoLog

SpecLogged == InitLogged /\ [][Next]_vars

\* The engine in demo mode, with the log of the discarded run on.
InitRuns ==
    /\ Constructed([start_min_weight_g |-> 1, start_max_weight_g |-> 1000,
                    hold_allowed_after_turn |-> hold_allowed_after_turn,
                    demo_mode |-> TRUE, demo_progression_turns |-> DemoScript])
    /\ submitted = NoLog
    /\ previous_run = {}

SpecRuns == InitRuns /\ [][Next]_vars

(***************************************************************************)
(* The server with its handler threads.  A thread reads the request, takes *)
(* ENGINE_LOCK, makes its engine call, leaves the with block and sends the *)
(* response; between those steps the other threads run.                    *)
(***************************************************************************)
ApiPaths == {"/api/state", "/api/start", "/api/submit"}

at(t, pc, path) == [handlers EXCEPT ![t].pc = pc, ![t].path = path]

\* do_GET / do_POST up to the with statement
Request(t) ==
    /\ handlers[t].pc = "idle"
    /\ \E path \in ApiPaths : handlers' = at(t, "request", path)
    /\ UNCHANGED <<config, state_vars, result, submitted, previous_run, ENGINE_LOCK>>

\* Fault injection: the with block is entered whoever holds the lock.
Acquire_without_waiting(t) ==
    /\ handlers[t].pc = "request"
    /\ ENGINE_LOCK' = t
    /\ handlers' = at(t, "locked", handlers[t].path)
    /\ UNCHANGED <<config, state_vars, result, submitted, previous_run>>

\* with ENGINE_LOCK: the thread waits until the lock is free
Acquire(t) ==
    /\ handlers[t].pc = "request"
    /\ ENGINE_LOCK = Free
    /\ ENGINE_LOCK' = t
    /\ handlers' = at(t, "locked", handlers[t].path)
    /\ UNCHANGED <<config, state_vars, result, submitted, previous_run>>

\* ENGINE.public_state()
public_state ==
    /\ result' = [NoResult EXCEPT !.type = "state"]
    /\ UNCHANGED <<config, state_vars, submitted, previous_run>>

\* The engine call of the with block.
Call(t) ==
    /\ handlers[t].pc = "locked"
    /\ result = NoResult
    /\ \/ handlers[t].path = "/api/state" /\ public_state
       \/ handlers[t].path = "/api/start" /\ reset
       \/ handlers[t].path = "/api/submit" /\ submit
    /\ handlers' = at(t, "returned", handlers[t].path)
    /\ UNCHANGED ENGINE_LOCK

\* The with block is left: the lock is released, the thread keeps the result.
Release(t) ==
    /\ handlers[t].pc = "returned"
    /\ ENGINE_LOCK' = Free
    /\ handlers' = at(t, "send", handlers[t].path)
    /\ result' = NoResult
    /\ UNCHANGED <<config, state_vars, submitted, previous_run>>

\* self._send_json(...)
Send(t) ==
    /\ handlers[t].pc = "send"
    /\ handlers' = [handlers EXCEPT ![t] = Idle]
    /\ UNCHANGED <<config, state_vars, result, submitted, previous_run, ENGINE_LOCK>>

NextServer ==
    \E t \in Handlers : Request(t) \/ Acquire(t) \/ Call(t) \/ Release(t) \/ Send(t)

\* The server started on an engine in demo mode.
InitServer ==
    /\ Constructed([start_min_weight_g |-> 1, start_max_weight_g |-> 1000,
                    hold_allowed_after_turn |-> hold_allowed_after_turn,
                    demo_mode |-> TRUE, demo_progression_turns |-> DemoScript])
    /\ submitted = NoLog
    /\ previous_run = NoLog

SpecServer == InitServer /\ [][NextServer]_vars

(***************************************************************************)
(* The server under clients that submit.  A thread reads the text of its   *)
(* request before it takes ENGINE_LOCK and holds on to what its call       *)
(* returned until it has sent it: input_text is the text, type the type of *)
(* the result, and judged whether the call invoked the judge.              *)
(***************************************************************************)
\* do_POST up to the with statement:
\* input_text = str(body.get("input_text", ""))
ReadSubmit(t) ==
    /\ handlers[t].pc = "idle"
    /\ \E input_text \in InputTexts :
          handlers' = [handlers EXCEPT ![t] =
                          [pc |-> "request", path |-> "/api/submit",
                           input_text |-> input_text, type |-> "none",
                           judged |-> FALSE]]
    /\ UNCHANGED <<config, state_vars, result, submitted, previous_run, ENGINE_LOCK>>

\* Fault injection: the call is made with a text of its own.
CallSubmit_with_any_text(t) ==
    /\ handlers[t].pc = "locked"
    /\ "input_text" \in DOMAIN handlers[t]
    /\ result = NoResult
    /\ submit
    /\ handlers' = [handlers EXCEPT ![t].pc = "returned",
                                    ![t].type = result'.type,
                                    ![t].judged = (result'.attempts # <<>>)]
    /\ UNCHANGED ENGINE_LOCK

\* result = ENGINE.submit(input_text, trace_id=trace_id)
CallSubmit(t) ==
    /\ handlers[t].pc = "locked"
    /\ "input_text" \in DOMAIN handlers[t]
    /\ result = NoResult
    /\ SubmitText(handlers[t].input_text)
    /\ submitted' = Logged(handlers[t].input_text)
    /\ handlers' = [handlers EXCEPT ![t].pc = "returned",
                                    ![t].type = result'.type,
                                    ![t].judged = (result'.attempts # <<>>)]
    /\ UNCHANGED <<config, previous_run, ENGINE_LOCK>>

NextClients ==
    \E t \in Handlers :
        ReadSubmit(t) \/ Acquire(t) \/ CallSubmit(t) \/ Release(t) \/ Send(t)

SpecClients == InitServer /\ [][NextClients]_vars

(***************************************************************************)
(* GameEngine._canonicalize on its own: the method is called on texts made *)
(* of a few words, and again on its own output.  result.raw holds the text *)
(* of the call and result.canonical_name what the call returned.           *)
(***************************************************************************)
MaxWords == 3

\* Articles, a count, and plurals of the three kinds singularize tells apart.
Words ==
    {<<"t", "h", "e">>, <<"a", "n">>, <<"3">>, <<"c", "a", "t", "s">>,
     <<"h", "o", "r", "s", "e", "s">>, <<"b", "e", "r", "r", "i", "e", "s">>}

SampleTexts ==
    {join(words, " ") : words \in UNION {[1..n -> Words] : n \in 1..MaxWords}}

Canonicalized(raw_input) ==
    [NoResult EXCEPT !.type = "canonical",
                     !.raw = raw_input,
                     !.canonical_name = canonicalize(raw_input)]

\* self._canonicalize(raw_input)
Canonicalize ==
    /\ \E raw_input \in SampleTexts : result' = Canonicalized(raw_input)
    /\ UNCHANGED <<config, state_vars, submitted, previous_run, server_vars>>

\* self._canonicalize(canonical), canonical being what the last call returned
CanonicalizeAgain ==
    /\ result.type = "canonical"
    /\ result' = Canonicalized(result.canonical_name)
    /\ UNCHANGED <<config, state_vars, submitted, previous_run, server_vars>>

NextCanonicalize == Canonicalize \/ CanonicalizeAgain

\* An engine built with the defaults of GameConfig.
InitCanonicalize ==
    /\ Constructed([start_min_weight_g |-> 1, start_max_weight_g |-> 10000000,
                    hold_allowed_after_turn |-> hold_allowed_after_turn,
                    demo_mode |-> FALSE, demo_progression_turns |-> NoScript])
    /\ submitted = NoLog
    /\ previous_run = NoLog

SpecCanonicalize == InitCanonicalize /\ [][NextCanonicalize]_vars

(***************************************************************************)
(* GameEngine._apply_progression on its own: the method is called, time    *)
(* and again, on a GameState(turn, min_g, max_g) with min_g < max_g, with  *)
(* allow_set_range and allow_set_rules as _run_turn passes them (both are  *)
(* the demo flag).  result.progression_actions holds the returned list.    *)
(***************************************************************************)
\* Starting ranges: two that meet the lock condition as they are, the
\* default one, and two in between.
StartRanges == {<<1, 2>>, <<1, 50>>, <<1, 1000>>, <<3, 5000>>, <<1, 10000000>>}

\* Turns before and after rule_add_min_turn and hold_allowed_after_turn.
Turns == {1, rule_add_min_turn, hold_allowed_after_turn + 1}

\* The outcome p of _apply_progression is stored in the state.
Progressed(p) ==
    /\ result' = [NoResult EXCEPT !.type = "progression",
                                  !.progression_actions = p.applied]
    /\ min_g' = p.min_g
    /\ max_g' = p.max_g
    /\ active_rules' = p.active_rules
    /\ range_locked' = p.range_locked

\* self._apply_progression(proposed_actions, allow_set_range=...,
\* allow_set_rules=...)
ApplyProgression ==
    /\ \E proposed_actions \in CalledActionLists :
          Progressed(apply_progression(State, proposed_actions,
                                       config.demo_mode, config.demo_mode))
    /\ UNCHANGED <<config, turn, score, lives, used_input_keys, used_canonical,
                   demo_progression_turn, game_over, game_over_reason, submitted,
                   previous_run, server_vars>>

\* GameState(turn=..., min_g=..., max_g=...) in an engine of either mode.
InitProgression ==
    /\ \E range \in StartRanges, demo_mode \in BOOLEAN :
          config = [start_min_weight_g |-> range[1], start_max_weight_g |-> range[2],
                    hold_allowed_after_turn |-> hold_allowed_after_turn,
                    demo_mode |-> demo_mode, demo_progression_turns |-> NoScript]
    /\ turn \in Turns
    /\ score = 0
    /\ lives = start_lives
    /\ min_g = config.start_min_weight_g
    /\ max_g = config.start_max_weight_g
    /\ active_rules = <<>>
    /\ used_input_keys = {}
    /\ used_canonical = {}
    /\ demo_progression_turn = 1
    /\ range_locked = FALSE
    /\ game_over = FALSE
    /\ game_over_reason = "None"
    /\ result = NoResult
    /\ submitted = NoLog
    /\ previous_run = NoLog
    /\ ENGINE_LOCK = Free
    /\ handlers = [t \in Handlers |-> Idle]

SpecProgression == InitProgression /\ [][ApplyProgression]_vars

(***************************************************************************)
(* The same calls in non-demo mode under an oracle that keeps shrinking:   *)
(* as long as the range is unlocked, every call applies a shrink_max or a  *)
(* hold that is replaced by one, and such calls keep coming.               *)
(***************************************************************************)
shrink_applied(applied) ==
    \E i \in DOMAIN applied :
        applied[i] \in {"shrink_max", "hold_replaced_with_shrink_max"}

ShrinkTurn ==
    /\ ApplyProgression
    /\ range_locked \/ shrink_applied(result'.progression_actions)

InitShrinking ==
    /\ InitProgression
    /\ ~config.demo_mode

SpecShrinking == InitShrinking /\ [][ShrinkTurn]_vars /\ WF_vars(ShrinkTurn)

(***************************************************************************)
(* Properties.  A step that answers a call leaves that call's result in    *)
(* result', so a property of a call is written on result' and the state    *)
(* before it: type "state" is a reset, "none" the body being sent, and     *)
(* every other type a submit.                                              *)
(***************************************************************************)

\* C1: min_g < max_g holds in every reachable state, whatever the calls and
\* the oracle's responses; and each progression call either ends with
\* min_g < max_g or returns exactly [hold_fallback_invalid_bounds] with min_g,
\* max_g and active_rules as they were before it.
C1_BoundsStayOrdered ==
    /\ [](min_g < max_g)
    /\ [][result'.progression_actions # <<>> =>
             \/ min_g' < max_g'
             \/ /\ result'.progression_actions = <<"hold_fallback_invalid_bounds">>
                /\ UNCHANGED <<min_g, max_g, active_rules>>]_vars

\* A progression call has moved both bounds.
C1_BoundsMoved ==
    /\ result.type = "turn_result"
    /\ result.progression_actions # <<>>
    /\ min_g > config.start_min_weight_g
    /\ max_g # config.start_max_weight_g

\* C2: from a state with range_locked, every step of the run other than a
\* reset and other than a progression that applied a set_range keeps
\* range_locked true and min_g and max_g as they are, and its progression
\* reports no shrink_max, raise_min, hold substitution or lock.
C2_LockedRangeIsFrozen ==
    [][(/\ range_locked
        /\ result'.type # "state"
        /\ "set_range" \notin SeqRange(result'.progression_actions))
       => /\ range_locked'
          /\ min_g' = min_g
          /\ max_g' = max_g
          /\ SeqRange(result'.progression_actions)
                 \cap {"shrink_max", "raise_min", "hold_replaced_with_shrink_max",
                       "lock_range"} = {}]_vars

\* A passing turn on a locked range proposed raise_min and it was skipped.
C2_RaiseSkippedOnLockedRange ==
    /\ range_locked
    /\ result.type = "turn_result"
    /\ "raise_min_skipped_range_locked" \in SeqRange(result.progression_actions)

\* C3, as stated: a text (not blank, not the end command) given to the run
\* before, submitted again while the game is on, is answered duplicate_input
\* with no judge call and no change of GameState.
C3_ResubmittedTextIsDuplicate ==
    [][(/\ ~game_over
        /\ result'.type \notin {"none", "state"}
        /\ result'.raw \in submitted)
       => /\ result'.type = "duplicate_input"
          /\ result'.attempts = <<>>
          /\ UNCHANGED state_vars]_vars

\* C3, amended: a submit (game on, text not blank, not the end command)
\* whose raw key is in used_input_keys is answered duplicate_input with no
\* judge call and no change of GameState; the raw key is recorded by every
\* submit that gets past the canonical-key check, and stays recorded until a
\* reset.
C3_RecordedKeyIsDuplicate ==
    [][/\ (/\ ~game_over
           /\ result'.raw # <<>>
           /\ result'.raw \notin EndCommands
           /\ RawKeys[result'.raw] \in used_input_keys)
          => /\ result'.type = "duplicate_input"
             /\ result'.attempts = <<>>
             /\ UNCHANGED state_vars
       /\ result'.type \in {"turn_result", "error_asset"}
          => RawKeys[result'.raw] \in used_input_keys'
       /\ result'.type # "state" => used_input_keys \subseteq used_input_keys']_vars

\* A text given before is answered duplicate_input without a judge call.
C3_ShortCircuited ==
    /\ result.type = "duplicate_input"
    /\ result.attempts = <<>>
    /\ result.raw \in submitted
    /\ RawKeys[result.raw] \in used_input_keys

\* C4: a turn_result records a canonical key that was not recorded before;
\* recorded keys stay until a reset; and a submit whose accepted judgment has
\* a recorded canonical key is answered duplicate_input, after the judge was
\* called, with no change of GameState.
C4_CanonicalKeyResolvesOnce ==
    [][/\ result'.type = "turn_result"
          => /\ KeysOfNames[result'.canonical_name][result'.raw] \notin used_canonical
             /\ KeysOfNames[result'.canonical_name][result'.raw] \in used_canonical'
       /\ result'.type # "state" => used_canonical \subseteq used_canonical'
       /\ (/\ TRUE \in SeqRange(result'.attempts)
           /\ KeysOfNames[result'.canonical_name][result'.raw] \in used_canonical)
          => /\ result'.type = "duplicate_input"
             /\ UNCHANGED state_vars]_vars

\* A text whose raw key is new was judged and found to name a used item.
C4_CanonicalDuplicate ==
    /\ result.type = "duplicate_input"
    /\ TRUE \in SeqRange(result.attempts)
    /\ RawKeys[result.raw] \notin used_input_keys
    /\ KeysOfNames[result.canonical_name][result.raw] \in used_canonical

\* C5: a submit calls the judge at most twice, once when the first response
\* is accepted and twice when it is not; when both are refused the submit
\* raises and no GameState field has changed.
C5_JudgeCalledAtMostTwice ==
    [][/\ Len(result'.attempts) <= 2
       /\ \A i \in DOMAIN result'.attempts :
             result'.attempts[i] <=> (i = Len(result'.attempts)
                                       /\ result'.type # "error_judge")
       /\ result'.attempts = <<FALSE, FALSE>> <=> result'.type = "error_judge"
       /\ result'.type \in {"turn_result", "error_asset"} => result'.attempts # <<>>
       /\ result'.type = "error_judge" => UNCHANGED state_vars]_vars

\* After a resolved turn, a submit raised on the second refused response.
C5_RaisedAfterTwoCalls ==
    /\ result.type = "error_judge"
    /\ result.attempts = <<FALSE, FALSE>>
    /\ turn > 1

\* C6: in every reachable state no response that lacks a rule check for an
\* active rule (rule texts compared by _rule_key) passes an attempt, and the
\* judgment a call accepted has a rule check for every rule active before it.
C6_MissingRuleCheckIsRefused ==
    /\ [](\A raw_input \in RawInputs, payload \in JudgeResponses :
             (/\ ~payload.raises
              /\ ~Judgments[raw_input][payload].error
              /\ \E r \in DOMAIN active_rules :
                    \A i \in DOMAIN Judgments[raw_input][payload].rule_checks :
                       RuleKeys[Judgments[raw_input][payload].rule_checks[i].rule]
                           # RuleKeys[active_rules[r]])
             => ~attempt_ok(payload, raw_input, active_rules))
    /\ [][(TRUE \in SeqRange(result'.attempts)) =>
             (\A r \in DOMAIN active_rules :
                 \E i \in DOMAIN result'.rule_checks :
                    RuleKeys[result'.rule_checks[i].rule] = RuleKeys[active_rules[r]])]_vars

\* With rules active, a submit raised although some response that is
\* accepted when no rule is active was among the oracle's responses.
C6_RefusedForMissingCheck ==
    /\ result.type = "error_judge"
    /\ active_rules # <<>>
    /\ \E payload \in JudgeResponses :
          /\ attempt_ok(payload, result.raw, <<>>)
          /\ ~attempt_ok(payload, result.raw, active_rules)

\* C7: from a state with game_over, every step other than a reset leaves
\* GameState as it is (game_over_reason included), and a submit is answered
\* game_over with no judge call.
C7_GameOverIsAbsorbing ==
    [][(game_over /\ result'.type # "state")
       => /\ UNCHANGED state_vars
          /\ result'.type \in {"game_over", "none"}
          /\ result'.attempts = <<>>]_vars

\* A fresh item was submitted after the lives ran out.
C7_SubmitAfterGameOver ==
    /\ result.type = "game_over"
    /\ game_over_reason = "no_lives"
    /\ result.raw # <<>>
    /\ RawKeys[result.raw] \notin used_input_keys

\* C8: turn is 1 after construction and after a reset, a turn_result adds
\* exactly 1 to it, and every other submit outcome leaves it as it is.
C8_TurnCountsResolvedTurns ==
    /\ turn = 1
    /\ [][/\ result'.type = "state" => turn' = 1
          /\ result'.type = "turn_result" => turn' = turn + 1
          /\ result'.type \notin {"state", "turn_result"} => turn' = turn]_vars

\* A failing turn advanced the counter.
C8_FailingTurnCounted ==
    /\ result.type = "turn_result"
    /\ ~result.pass
    /\ turn = 3
    /\ lives = 1

\* C9, as stated: a turn_result passes exactly when the judgment is not
\* cheating, its weight is within [min_g, max_g] as they were before the
\* turn, and every rule active before the turn has some rule check with
\* ok = true.
C9_PassIffSomeCheckOk ==
    [][result'.type = "turn_result" =>
          (result'.pass <=>
              /\ ~result'.cheating
              /\ min_g <= result'.weight_g
              /\ result'.weight_g <= max_g
              /\ \A r \in DOMAIN active_rules :
                    \E i \in DOMAIN result'.rule_checks :
                       /\ RuleKeys[result'.rule_checks[i].rule] = RuleKeys[active_rules[r]]
                       /\ result'.rule_checks[i].ok)]_vars

\* C9, amended: as above, with the verdict on a rule being that of the
\* first rule check whose rule matches it.
C9_PassIffFirstCheckOk ==
    [][result'.type = "turn_result" =>
          (result'.pass <=>
              /\ ~result'.cheating
              /\ min_g <= result'.weight_g
              /\ result'.weight_g <= max_g
              /\ \A r \in DOMAIN active_rules :
                    \E i \in DOMAIN result'.rule_checks :
                       /\ RuleKeys[result'.rule_checks[i].rule] = RuleKeys[active_rules[r]]
                       /\ result'.rule_checks[i].ok
                       /\ \A j \in 1..(i - 1) :
                             RuleKeys[result'.rule_checks[j].rule]
                                 # RuleKeys[active_rules[r]])]_vars

\* A turn failed on a rule whose first check says no and a later one yes.
C9_FirstCheckDecided ==
    /\ result.type = "turn_result"
    /\ ~result.pass
    /\ result.reason = "rule_failed"
    /\ \E i, j \in DOMAIN result.rule_checks :
          /\ i < j
          /\ RuleKeys[result.rule_checks[i].rule] = RuleKeys[result.rule_checks[j].rule]
          /\ ~result.rule_checks[i].ok
          /\ result.rule_checks[j].ok

\* C10: a passing turn adds 3 to score when, before its progression,
\* max_g <= 1000 or at least two rules are active, and 1 otherwise; no other
\* step of a run changes score.
C10_PointsForPass ==
    [][/\ (result'.type = "turn_result" /\ result'.pass)
          => score' = score + (IF max_g <= 1000 \/ Len(active_rules) >= 2 THEN 3 ELSE 1)
       /\ (result'.type # "state" /\ ~(result'.type = "turn_result" /\ result'.pass))
          => score' = score
       /\ result'.type # "state" => score' >= score]_vars

\* A pass worth 3 on a wide range with two rules, after passes worth 3 and 1.
C10_ThreeThenOneThenThree ==
    /\ result.type = "turn_result"
    /\ result.pass
    /\ score = 7
    /\ turn = 4
\* C11: a failing turn_result takes exactly one life and leaves score, min_g,
\* max_g, active_rules, range_locked and demo_progression_turn as they are; a
\* passing turn_result leaves lives as it is.  With lives = start_lives after
\* construction and after a reset, and no other step changing lives, lives is
\* start_lives minus the failing turns of the run.
C11_FailingTurnCostsOneLife ==
    /\ lives = start_lives
    /\ [][/\ (result'.type = "turn_result" /\ ~result'.pass)
             => /\ lives' = lives - 1
                /\ UNCHANGED <<score, min_g, max_g, active_rules, range_locked,
                               demo_progression_turn>>
          /\ (result'.type = "turn_result" /\ result'.pass) => lives' = lives
          /\ result'.type = "state" => lives' = start_lives
          /\ result'.type \notin {"turn_result", "state"} => lives' = lives]_vars

\* After a pass that locked the range, the second failing turn of the run.
C11_SecondFailOnLockedRange ==
    /\ result.type = "turn_result"
    /\ ~result.pass
    /\ lives = start_lives - 2
    /\ score > 0
    /\ range_locked

\* C12: in every reachable state game_over holds exactly when
\* game_over_reason is not null; game_over_reason is null, end_command,
\* no_lives or demo_win; lives >= 0; and lives <= 0 holds exactly when
\* game_over_reason is no_lives, so a game that is on has lives >= 1.
C12_TerminalFlagMatchesReason ==
    /\ game_over <=> game_over_reason # "None"
    /\ game_over_reason \in {"None", "end_command", "no_lives", "demo_win"}
    /\ lives >= 0
    /\ lives <= 0 <=> game_over_reason = "no_lives"
    /\ ~game_over => lives >= 1

\* The failing turn that took the last life ended the game.
C12_LastLifeLost ==
    /\ result.type = "turn_result"
    /\ ~result.pass
    /\ lives = 0
    /\ game_over
    /\ game_over_reason = "no_lives"

\* C13: while the game is on, a submit whose trimmed text is the end command
\* ignoring case sets game_over with reason end_command, without a judge
\* call, and leaves turn, score, lives, min_g, max_g, active_rules,
\* range_locked, used_input_keys and used_canonical as they are, also when
\* the raw key of the text is recorded (the test precedes the duplicate test).
C13_EndCommandEndsRun ==
    [][(/\ ~game_over
        /\ result'.type \notin {"none", "state"}
        /\ result'.raw \in EndCommands)
       => /\ result'.type = "end_command"
          /\ game_over'
          /\ game_over_reason' = "end_command"
          /\ result'.attempts = <<>>
          /\ UNCHANGED <<turn, score, lives, min_g, max_g, active_rules, range_locked,
                         used_input_keys, used_canonical>>]_vars

\* The end command was given after a turn that recorded its raw key.
C13_EndCommandWithRecordedKey ==
    /\ result.type = "end_command"
    /\ result.raw # end_command
    /\ RawKeys[result.raw] \in used_input_keys
    /\ game_over_reason = "end_command"
    /\ turn > 1

\* C14: a reset, from whatever state, leaves turn = 1, score = 0,
\* lives = start_lives, min_g and max_g at the configured start range, no
\* active rule, both used sets empty, range_locked and game_over false,
\* game_over_reason null and demo_progression_turn = 1; and a text whose raw
\* key the discarded run had recorded, submitted to the new run while it is
\* on and before any key is recorded, is judged and not answered
\* duplicate_input.
C14_ResetStartsAfresh ==
    [][/\ result'.type = "state"
          => /\ turn' = 1
             /\ score' = 0
             /\ lives' = start_lives
             /\ min_g' = config.start_min_weight_g
             /\ max_g' = config.start_max_weight_g
             /\ active_rules' = <<>>
             /\ used_input_keys' = {}
             /\ used_canonical' = {}
             /\ ~range_locked'
             /\ ~game_over'
             /\ game_over_reason' = "None"
             /\ demo_progression_turn' = 1
       /\ (/\ ~game_over
           /\ result'.type \notin {"none", "state"}
           /\ result'.raw # <<>>
           /\ result'.raw \notin EndCommands
           /\ RawKeys[result'.raw] \in previous_run
           /\ used_input_keys = {}
           /\ used_canonical = {})
          => /\ result'.type \in {"turn_result", "error_judge", "error_asset"}
             /\ result'.attempts # <<>>]_vars

\* The first turn of a run resolved a text that the discarded run had used.
C14_UsedTextResolvedAgain ==
    /\ result.type = "turn_result"
    /\ turn = 2
    /\ previous_run # NoLog
    /\ RawKeys[result.raw] \in previous_run

\* C15, as stated: in non-demo mode a resolved turn never increases max_g
\* and never decreases min_g, and the rules before it are a prefix of the
\* rules after it.
C15_DifficultyOnlyTightens ==
    [][(~config.demo_mode /\ result'.type = "turn_result")
       => /\ max_g' <= max_g
          /\ min_g' >= min_g
          /\ Len(active_rules) <= Len(active_rules')
          /\ SubSeq(active_rules', 1, Len(active_rules)) = active_rules]_vars

\* C15, amended: in non-demo mode a resolved turn never decreases min_g, and
\* the rules before it are a prefix of the rules after it; it does not
\* increase max_g unless its progression locks the range, and a lock sets
\* max_g to max(min_g + 1, min_g * min_max_lock_ratio) of the new min_g,
\* which may lie above the max_g before the turn.
C15_TightensUpToTheLock ==
    [][(~config.demo_mode /\ result'.type = "turn_result")
       => /\ min_g' >= min_g
          /\ Len(active_rules) <= Len(active_rules')
          /\ SubSeq(active_rules', 1, Len(active_rules)) = active_rules
          /\ "lock_range" \notin SeqRange(result'.progression_actions)
             => max_g' <= max_g
          /\ "lock_range" \in SeqRange(result'.progression_actions)
             => /\ range_locked'
                /\ max_g' = Max(min_g' + 1, min_g' * min_max_lock_ratio)]_vars

\* A non-demo turn raised min_g and locked the range above the starting max_g.
C15_LockWidenedTheRange ==
    /\ ~config.demo_mode
    /\ result.type = "turn_result"
    /\ "lock_range" \in SeqRange(result.progression_actions)
    /\ range_locked
    /\ min_g > config.start_min_weight_g
    /\ max_g > config.start_max_weight_g

\* C16: in every reachable state active_rules has at most max_rules entries,
\* and no two of them are equal when compared ignoring case and whitespace
\* (by _rule_key).
C16_RulesBoundedAndDistinct ==
    /\ Len(active_rules) <= max_rules
    /\ \A i, j \in DOMAIN active_rules :
          i # j => RuleKeys[active_rules[i]] # RuleKeys[active_rules[j]]

\* C17: in every reachable state no two active rules are the two sides of a
\* pair of the contradiction table (compared by _rule_key), and an add_rule
\* whose rule matches one side of a pair while the other side is active
\* leaves active_rules as it is and, when turn >= rule_add_min_turn and
\* fewer than max_rules rules are active, reports
\* add_rule_skipped_contradiction; a turn that reports this status ends with
\* one side of a pair active.
C17_NoContradictingRules ==
    /\ [](\A pair \in CONTRADICTIONS :
             ~(/\ RuleKeys[pair[1]] \in {RuleKeys[rule] : rule \in SeqRange(active_rules)}
               /\ RuleKeys[pair[2]] \in {RuleKeys[rule] : rule \in SeqRange(active_rules)}))
    /\ [](\A rule \in ProposedRules \ {None} :
             (\E pair \in CONTRADICTIONS : \E i, j \in {1, 2} :
                 /\ i # j
                 /\ RuleKeys[rule] = RuleKeys[pair[i]]
                 /\ RuleKeys[pair[j]] \in {RuleKeys[r] : r \in SeqRange(active_rules)})
             => /\ apply_add_rule(start_progression(State), AddRule(rule)).active_rules
                       = active_rules
                /\ (turn >= rule_add_min_turn /\ Len(active_rules) < max_rules)
                   => apply_add_rule(start_progression(State), AddRule(rule)).applied
                          = <<"add_rule_skipped_contradiction">>)
    /\ [][("add_rule_skipped_contradiction" \in SeqRange(result'.progression_actions))
          => \E pair \in CONTRADICTIONS : \E i \in {1, 2} :
                RuleKeys[pair[i]] \in {RuleKeys[r] : r \in SeqRange(active_rules')}]_vars

\* A turn added one side of a pair and refused the other side.
C17_ContradictionRefused ==
    /\ result.type = "turn_result"
    /\ result.progression_actions = <<"add_rule", "add_rule_skipped_contradiction">>
    /\ Len(active_rules) = 1
    /\ \E pair \in CONTRADICTIONS :
          RuleKeys[active_rules[1]] \in {RuleKeys[pair[1]], RuleKeys[pair[2]]}

\* C18: a progression whose first status is that of a hold processed on an
\* unlocked range reports hold exactly when turn > hold_allowed_after_turn
\* and max_g - min_g <= hold_thin_boundary_span_g, with the range left as it
\* is; otherwise it reports hold_replaced_with_shrink_max and not hold, min_g
\* stays, and max_g becomes max(min_g + 1, nice_round_weight(max_g *
\* max_shrink_factor)), or the lock target when that value makes the lock
\* after the loop apply.  No turn reports hold at a turn up to
\* hold_allowed_after_turn.
C18_HoldOnlyOnThinRange ==
    [][(/\ result'.type = "turn_result"
        /\ result'.progression_actions # <<>>
        /\ result'.progression_actions[1] \in {"hold", "hold_replaced_with_shrink_max"})
       => /\ result'.progression_actions[1] = "hold"
             <=> (/\ turn > config.hold_allowed_after_turn
                  /\ max_g - min_g <= hold_thin_boundary_span_g)
          /\ min_g' = min_g
          /\ result'.progression_actions = <<"hold">> => max_g' = max_g
          /\ result'.progression_actions[1] = "hold_replaced_with_shrink_max"
             => /\ "hold" \notin SeqRange(result'.progression_actions)
                /\ \/ /\ "lock_range" \notin SeqRange(result'.progression_actions)
                      /\ max_g' = Max(min_g + 1,
                                      nice_round_weight(max_g * max_shrink_factor[1],
                                                        max_shrink_factor[2]))
                   \/ /\ "lock_range" \in SeqRange(result'.progression_actions)
                      /\ max_g' = Max(min_g + 1, min_g * min_max_lock_ratio)
                      /\ Max(min_g + 1,
                             nice_round_weight(max_g * max_shrink_factor[1],
                                               max_shrink_factor[2])) <= max_g']_vars

\* A hold proposed after hold_allowed_after_turn was replaced, the range
\* being wider than hold_thin_boundary_span_g.
C18_HoldReplacedOnWideRange ==
    /\ result.type = "turn_result"
    /\ result.progression_actions = <<"hold_replaced_with_shrink_max">>
    /\ turn - 1 > config.hold_allowed_after_turn
    /\ min_g > config.start_min_weight_g

\* C19: demo_progression_turn is 1 after construction and after a reset; in
\* demo mode a passing turn that applies the scripted progression adds
\* exactly 1 to it, and a failing turn (which still advances turn), the
\* winning turn and every submit that is not a turn_result leave it as it
\* is; in non-demo mode it is 1 in every reachable state.
C19_DemoCounterCountsScriptedSteps ==
    /\ demo_progression_turn = 1
    /\ [](~config.demo_mode => demo_progression_turn = 1)
    /\ [][/\ result'.type = "state" => demo_progression_turn' = 1
          /\ (/\ config.demo_mode
              /\ result'.type = "turn_result"
              /\ result'.pass
              /\ result'.progression_actions # <<>>)
             => demo_progression_turn' = demo_progression_turn + 1
          /\ (/\ result'.type = "turn_result"
              /\ result'.pass
              /\ result'.progression_actions = <<>>)
             => /\ game_over_reason' = "demo_win"
                /\ demo_progression_turn' = demo_progression_turn
          /\ (result'.type = "turn_result" /\ ~result'.pass)
             => /\ demo_progression_turn' = demo_progression_turn
                /\ turn' = turn + 1
          /\ result'.type \notin {"state", "turn_result"}
             => demo_progression_turn' = demo_progression_turn]_vars

\* In demo mode a failing turn after a scripted step: turn is ahead of the
\* counter.
C19_FailingDemoTurn ==
    /\ config.demo_mode
    /\ result.type = "turn_result"
    /\ ~result.pass
    /\ demo_progression_turn = 2
    /\ turn = 3

\* C20: in demo mode with a script whose highest turn index is N,
\* demo_progression_turn <= N + 1 in every reachable state; a passing turn
\* with the counter at k <= N applies the actions scripted for k (the default
\* actions when k has no entry) and does not end the game; a passing turn
\* with the counter at N + 1 sets game_over with reason demo_win, adds the
\* points, applies no progression and leaves the counter.  With an empty
\* script the reason is never demo_win.
C20_DemoScriptThenWin ==
    /\ []((config.demo_mode /\ DOMAIN config.demo_progression_turns # {})
          => \E n \in DOMAIN config.demo_progression_turns :
                demo_progression_turn <= n + 1)
    /\ []((DOMAIN config.demo_progression_turns = {}) => game_over_reason # "demo_win")
    /\ [][(/\ config.demo_mode
           /\ DOMAIN config.demo_progression_turns # {}
           /\ result'.type = "turn_result"
           /\ result'.pass)
          => IF \E n \in DOMAIN config.demo_progression_turns : demo_progression_turn <= n
             THEN /\ ~game_over'
                  /\ [min_g |-> min_g', max_g |-> max_g', active_rules |-> active_rules',
                      range_locked |-> range_locked',
                      applied |-> result'.progression_actions]
                         = apply_progression(
                               State,
                               IF demo_progression_turn \in DOMAIN config.demo_progression_turns
                               THEN config.demo_progression_turns[demo_progression_turn]
                               ELSE DEFAULT_DEMO_ACTIONS,
                               TRUE, TRUE)
             ELSE /\ game_over'
                  /\ game_over_reason' = "demo_win"
                  /\ score' = score + (IF max_g <= 1000 \/ Len(active_rules) >= 2
                                       THEN 3 ELSE 1)
                  /\ result'.progression_actions = <<>>
                  /\ UNCHANGED <<min_g, max_g, active_rules, range_locked,
                                 demo_progression_turn>>]_vars

\* The run was won after a default step for turn 1 and the scripted turn 2.
C20_WonAfterDefaultAndScriptedStep ==
    /\ config.demo_mode
    /\ DOMAIN config.demo_progression_turns = {2}
    /\ result.type = "turn_result"
    /\ game_over_reason = "demo_win"
    /\ demo_progression_turn = 3
    /\ active_rules # <<>>
    /\ max_g = 4000

\* C21: canonicalize is idempotent: canonicalizing a text that canonicalize
\* returned gives that text back.
C21_CanonicalizeIsIdempotent ==
    [][(/\ result.type = "canonical"
        /\ result'.type = "canonical"
        /\ result'.raw = result.canonical_name)
       => result'.canonical_name = result.canonical_name]_vars

\* The handler is inside its with ENGINE_LOCK block.
in_with_block(h) == h.pc \in {"locked", "returned"}

\* C22: every engine call of /api/state, /api/start and /api/submit is made
\* by the thread that holds ENGINE_LOCK while no other thread is inside its
\* with block, so the engine operations happen one at a time, GameState
\* changes only by whole engine calls made one after the other, and
\* public_state never runs while another call is under way.
C22_EngineCallsHoldTheLock ==
    [][/\ \A t \in Handlers : in_with_block(handlers'[t]) => ENGINE_LOCK' = t
       /\ (state_vars' # state_vars \/ (result = NoResult /\ result' # NoResult))
          => \E t \in Handlers :
                /\ ENGINE_LOCK = t
                /\ handlers[t].pc = "locked"
                /\ handlers'[t].pc = "returned"
                /\ \A u \in Handlers \ {t} :
                      /\ ~in_with_block(handlers[u])
                      /\ handlers'[u] = handlers[u]]_vars

\* A turn was resolved for one thread, which still holds the lock, while
\* another thread waits to read the state.
C22_StateRequestWaitsForTurn ==
    \E t, u \in Handlers :
        /\ t # u
        /\ handlers[t] = [pc |-> "returned", path |-> "/api/submit"]
        /\ result.type = "turn_result"
        /\ handlers[u] = [pc |-> "request", path |-> "/api/state"]


\* C23: a hold that is not permitted on an unlocked range, followed by an
\* add_rule, leaves min_g, max_g, range_locked and active_rules as the list
\* with shrink_max in the place of hold leaves them.
C23_ReplacedHoldActsAsShrinkMax ==
    [][(/\ result'.type = "turn_result"
        /\ ~config.demo_mode
        /\ Len(result'.progression_actions) >= 2
        /\ result'.progression_actions[1] = "hold_replaced_with_shrink_max"
        /\ result'.progression_actions[2] # "lock_range")
       => [min_g |-> min_g', max_g |-> max_g', active_rules |-> active_rules',
           range_locked |-> range_locked']
          = [f \in {"min_g", "max_g", "active_rules", "range_locked"} |->
                apply_progression(State, <<DictEntry(T_SHRINK_MAX), AddRule(BE_FOOD)>>,
                                  FALSE, FALSE)[f]]]_vars


\* The range a status of the applied list leaves, when the list holds no
\* set_range.
range_after_status(range, status) ==
    IF status \in {"shrink_max", "hold_replaced_with_shrink_max"}
    THEN [range EXCEPT !.max_g = shrunk_max_g(range)]
    ELSE IF status = "raise_min" THEN [range EXCEPT !.min_g = raised_min_g(range)]
    ELSE IF status = "lock_range" THEN [range EXCEPT !.max_g = lock_target_max_g(range)]
    ELSE range

RECURSIVE range_after(_, _)
range_after(range, statuses) ==
    IF statuses = <<>> THEN range
    ELSE range_after(range_after_status(range, Head(statuses)), Tail(statuses))

\* C24: in a passing turn outside demo mode, when the shrink_max or raise_min
\* reported at place i of the applied list leaves a range with
\* max_g <= max(min_g + 1, min_g * min_max_lock_ratio), the next status is
\* lock_range and it is the last one, so that no later action of the list is
\* processed or reported; the turn ends with the range locked, min_g as that
\* action left it and max_g at the lock target.
C24_LockStopsTheList ==
    [][(result'.type = "turn_result" /\ ~config.demo_mode)
       => \A i \in DOMAIN result'.progression_actions :
             (/\ result'.progression_actions[i] \in {"shrink_max", "raise_min"}
              /\ should_lock_range(
                     range_after([min_g |-> min_g, max_g |-> max_g],
                                 SubSeq(result'.progression_actions, 1, i))))
             => /\ Len(result'.progression_actions) = i + 1
                /\ result'.progression_actions[i + 1] = "lock_range"
                /\ range_locked'
                /\ [min_g |-> min_g', max_g |-> max_g']
                   = range_after([min_g |-> min_g, max_g |-> max_g],
                                 result'.progression_actions)
                /\ max_g' = Max(min_g' + 1, min_g' * min_max_lock_ratio)]_vars

\* A shrink_max locked the range on a turn that could have added a rule, and
\* nothing after it was reported.
C24_ShrinkLockedTheRange ==
    /\ result.type = "turn_result"
    /\ ~config.demo_mode
    /\ result.progression_actions = <<"shrink_max", "lock_range">>
    /\ turn - 1 >= rule_add_min_turn
    /\ Len(active_rules) < max_rules
    /\ range_locked


\* C25: the reason and rule_fail of a turn are chosen in this order: a
\* cheating input gives the cheating reason with rule_fail "cheating"; else
\* a weight outside min_g..max_g gives the out-of-range reason with no
\* rule_fail, whatever the rule checks say; else, when some active rule
\* failed, the reason is that of a failed rule and rule_fail names the first
\* failed rule in the order of active_rules; else the success message, with
\* no rule_fail.  The success message is given exactly when the turn passes.
C25_ReasonByPriority ==
    [][result'.type = "turn_result" =>
          /\ result'.cheating
             => result'.reason = "cheating" /\ result'.rule_fail = CHEATING
          /\ (/\ ~result'.cheating
              /\ (result'.weight_g < min_g \/ result'.weight_g > max_g))
             => result'.reason = "outside_range" /\ result'.rule_fail = None
          /\ (/\ ~result'.cheating
              /\ min_g <= result'.weight_g
              /\ result'.weight_g <= max_g
              /\ \E r \in DOMAIN active_rules :
                    rule_failed(result'.rule_checks, active_rules[r]))
             => /\ result'.reason = "rule_failed"
                /\ \E r \in DOMAIN active_rules :
                      /\ result'.rule_fail = active_rules[r]
                      /\ rule_failed(result'.rule_checks, active_rules[r])
                      /\ \A q \in 1..(r - 1) :
                            ~rule_failed(result'.rule_checks, active_rules[q])
          /\ result'.reason = "within_range_and_rules_satisfied" <=> result'.pass
          /\ result'.pass => result'.rule_fail = None]_vars

\* A cheating input with a weight outside the range and a failed rule was
\* answered as cheating.
C25_CheatingOutOfRangeAndRuleFailed ==
    /\ result.type = "turn_result"
    /\ result.cheating
    /\ result.weight_g > max_g
    /\ \E r \in DOMAIN active_rules : rule_failed(result.rule_checks, active_rules[r])
    /\ result.rule_fail = CHEATING


\* C26: outside demo mode no progression reports set_range or set_rules as
\* applied; a proposed set_range or set_rules is reported as skipped, not
\* allowed, and the turn leaves min_g and max_g as the other statuses of the
\* list account for, active_rules as they were unless an add_rule was
\* applied, and range_locked as it was unless the range was locked.  In demo
\* mode the progression of a turn is that of the scripted actions of the
\* demo turn, whatever the oracle proposed.
C26_SetActionsOnlyFromTheScript ==
    [][(result'.type = "turn_result" /\ result'.progression_actions # <<>>)
       => IF config.demo_mode
          THEN [min_g |-> min_g', max_g |-> max_g', active_rules |-> active_rules',
                range_locked |-> range_locked',
                applied |-> result'.progression_actions]
               = apply_progression(State, demo_actions_for_turn(demo_progression_turn),
                                   TRUE, TRUE)
          ELSE /\ "set_range" \notin SeqRange(result'.progression_actions)
               /\ "set_rules" \notin SeqRange(result'.progression_actions)
               /\ [min_g |-> min_g', max_g |-> max_g']
                  = range_after([min_g |-> min_g, max_g |-> max_g],
                                result'.progression_actions)
               /\ "add_rule" \notin SeqRange(result'.progression_actions)
                  => active_rules' = active_rules
               /\ range_locked'
                  <=> (range_locked \/ "lock_range" \in SeqRange(result'.progression_actions))]_vars

\* The oracle proposed a set_range and a set_rules outside demo mode.
C26_ProposedSetActionsSkipped ==
    /\ result.type = "turn_result"
    /\ ~config.demo_mode
    /\ result.progression_actions
          = <<"set_range_skipped_not_allowed", "set_rules_skipped_not_allowed">>


\* The bounds of a set_range entry are integers that the code accepts.
valid_range(entry) ==
    /\ entry.type = T_SET_RANGE
    /\ entry.min_g.kind = "int"
    /\ entry.max_g.kind = "int"
    /\ entry.min_g.val >= 1
    /\ entry.max_g.val > entry.min_g.val

\* C27: in a demo turn whose scripted actions are set_range entries with
\* integer bounds (and set_rules or add_rule entries), each set_range is
\* reported as applied exactly when new_min >= 1 and new_max > new_min, and
\* as skipped for invalid bounds otherwise.  When one was applied the turn ends with
\* min_g and max_g at the bounds of the last one applied and range_locked
\* false, and no lock_range is reported: neither the lock before the loop
\* nor the lock after it is applied.  When none was applied min_g stays, and
\* max_g and range_locked stay unless the range is locked after the loop.
C27_SetRangeByItsBounds ==
    [][(/\ config.demo_mode
        /\ result'.type = "turn_result"
        /\ result'.progression_actions # <<>>
        /\ \A e \in SeqRange(NormalizedActions[demo_actions_for_turn(demo_progression_turn)]) :
              \/ e.type \in {T_SET_RULES, T_ADD_RULE}
              \/ e.type = T_SET_RANGE /\ e.min_g.kind = "int" /\ e.max_g.kind = "int"
        /\ \E e \in SeqRange(NormalizedActions[demo_actions_for_turn(demo_progression_turn)]) :
              e.type = T_SET_RANGE)
       => /\ \A i \in DOMAIN NormalizedActions[demo_actions_for_turn(demo_progression_turn)] :
                NormalizedActions[demo_actions_for_turn(demo_progression_turn)][i].type
                    = T_SET_RANGE
                => result'.progression_actions[i]
                   = IF valid_range(
                          NormalizedActions[demo_actions_for_turn(demo_progression_turn)][i])
                     THEN "set_range" ELSE "set_range_skipped_invalid_bounds"
          /\ IF \E e \in SeqRange(NormalizedActions[
                                      demo_actions_for_turn(demo_progression_turn)]) :
                   valid_range(e)
             THEN /\ \E i \in DOMAIN NormalizedActions[
                                         demo_actions_for_turn(demo_progression_turn)] :
                        /\ valid_range(NormalizedActions[
                               demo_actions_for_turn(demo_progression_turn)][i])
                        /\ \A j \in DOMAIN NormalizedActions[
                                        demo_actions_for_turn(demo_progression_turn)] :
                              valid_range(NormalizedActions[
                                  demo_actions_for_turn(demo_progression_turn)][j]) => j <= i
                        /\ min_g' = NormalizedActions[
                               demo_actions_for_turn(demo_progression_turn)][i].min_g.val
                        /\ max_g' = NormalizedActions[
                               demo_actions_for_turn(demo_progression_turn)][i].max_g.val
                  /\ ~range_locked'
                  /\ "lock_range" \notin SeqRange(result'.progression_actions)
             ELSE /\ min_g' = min_g
                  /\ "lock_range" \notin SeqRange(result'.progression_actions)
                     => max_g' = max_g /\ range_locked' = range_locked]_vars

\* A scripted set_range left an unlocked range that satisfies the lock
\* condition, and the next scripted set_range was applied on top of it.
C27_SetRangeOnLockableRange ==
    /\ config.demo_mode
    /\ result.type = "turn_result"
    /\ result.progression_actions # <<>>
    /\ result.progression_actions[1] = "set_range"
    /\ demo_progression_turn = 4
    /\ ~range_locked
    /\ max_g <= min_g * min_max_lock_ratio


\* C28: an add_rule processed at a turn below rule_add_min_turn is reported
\* as add_rule_skipped_too_early, and one processed at a later turn while
\* max_rules rules are active as add_rule_skipped_max_rules; a turn whose
\* add_rule statuses are these and that applies no set_rules leaves
\* active_rules as they were.  Outside demo mode active_rules is empty in
\* every state with turn <= rule_add_min_turn.
C28_AddRuleNeedsTurnAndRoom ==
    /\ [](( ~config.demo_mode /\ turn <= rule_add_min_turn) => active_rules = <<>>)
    /\ [][result'.type = "turn_result" =>
             /\ \A i \in DOMAIN result'.progression_actions :
                   /\ (/\ turn < rule_add_min_turn
                       /\ result'.progression_actions[i]
                             \in {"add_rule", "add_rule_skipped_too_early",
                                  "add_rule_skipped_max_rules", "add_rule_skipped_invalid_rule",
                                  "add_rule_skipped_duplicate",
                                  "add_rule_skipped_contradiction"})
                      => result'.progression_actions[i] = "add_rule_skipped_too_early"
                   /\ (/\ turn >= rule_add_min_turn
                       /\ Len(active_rules) >= max_rules
                       /\ \A j \in 1..(i - 1) :
                             result'.progression_actions[j] \notin {"set_rules", "add_rule"}
                       /\ result'.progression_actions[i]
                             \in {"add_rule", "add_rule_skipped_too_early",
                                  "add_rule_skipped_max_rules", "add_rule_skipped_invalid_rule",
                                  "add_rule_skipped_duplicate",
                                  "add_rule_skipped_contradiction"})
                      => result'.progression_actions[i] = "add_rule_skipped_max_rules"
             /\ (/\ \E i \in DOMAIN result'.progression_actions :
                       result'.progression_actions[i]
                          \in {"add_rule_skipped_too_early", "add_rule_skipped_max_rules"}
                 /\ "set_rules" \notin SeqRange(result'.progression_actions)
                 /\ "add_rule" \notin SeqRange(result'.progression_actions))
                => active_rules' = active_rules]_vars

\* An add_rule was refused at a turn late enough, max_rules rules being
\* active.
C28_AddRuleRefusedForRoom ==
    /\ result.type = "turn_result"
    /\ "add_rule_skipped_max_rules" \in SeqRange(result.progression_actions)
    /\ turn - 1 >= rule_add_min_turn
    /\ Len(active_rules) = max_rules


\* C29: a submit answered duplicate_input after the judge was called leaves
\* the raw key of its text out of used_input_keys, with GameState as it was;
\* and a text given to the run before (not blank, not the end command),
\* submitted while the game is on and its raw key is not in used_input_keys,
\* has the judge called again.
C29_CanonicalDuplicateKeepsKeyFree ==
    [][/\ (result'.type = "duplicate_input" /\ TRUE \in SeqRange(result'.attempts))
          => /\ RawKeys[result'.raw] \notin used_input_keys'
             /\ UNCHANGED state_vars
       /\ (/\ ~game_over
           /\ result'.type \notin {"none", "state"}
           /\ result'.raw \in submitted
           /\ result'.raw \notin EndCommands
           /\ RawKeys[result'.raw] \notin used_input_keys)
          => result'.attempts # <<>>]_vars

\* A text was answered duplicate_input for its canonical key, and its raw
\* key is left out of used_input_keys.
C29_KeyFreeAfterCanonicalDuplicate ==
    /\ result.type = "duplicate_input"
    /\ TRUE \in SeqRange(result.attempts)
    /\ result.raw \in submitted
    /\ RawKeys[result.raw] # <<>>
    /\ RawKeys[result.raw] \notin used_input_keys
    /\ ~game_over


\* C30: no submit removes an element of used_input_keys or used_canonical; a
\* turn_result adds to them exactly the raw key and the canonical key of its
\* turn (the raw key being the slug of the text or, when the slug is empty,
\* the text in lower case); a reset empties both, and nothing else makes
\* either smaller.
C30_UsedKeysGrowUntilReset ==
    [][/\ result'.type # "state"
          => /\ used_input_keys \subseteq used_input_keys'
             /\ used_canonical \subseteq used_canonical'
       /\ result'.type = "turn_result"
          => /\ used_canonical'
                = used_canonical \cup {KeysOfNames[result'.canonical_name][result'.raw]}
             /\ \E input_text \in InputTexts :
                   /\ Submitted[input_text].raw = result'.raw
                   /\ used_input_keys'
                      = used_input_keys \cup {Submitted[input_text].effective_raw_key}
       /\ result'.type = "state" => used_input_keys' = {} /\ used_canonical' = {}]_vars

\* The third turn of a run was resolved, each turn having added its keys.
C30_ThreeTurnsRecorded ==
    /\ result.type = "turn_result"
    /\ turn = 4
    /\ Cardinality(used_input_keys) = 3
    /\ Cardinality(used_canonical) = 3

\* The statuses of a returned list that stand for a processed action: every
\* status but the lock_range one, which a lock adds on its own.
processed(applied) == {i \in DOMAIN applied : applied[i] # "lock_range"}

range_steps(applied) ==
    {i \in DOMAIN applied :
        applied[i] \in {"shrink_max", "raise_min", "hold_replaced_with_shrink_max"}}

\* Every normalized list has between one and max_progression_actions_per_turn
\* actions, each of them the default hold or what one of the first
\* max_progression_actions_per_turn entries of the proposal normalizes to.
normalized_from_the_first_entries ==
    \A actions \in AllActionLists :
        /\ Len(NormalizedActions[actions]) \in 1..max_progression_actions_per_turn
        /\ \A j \in DOMAIN NormalizedActions[actions] :
              \/ /\ NormalizedActions[actions] = <<HoldAction>>
                 /\ normalize_entries(Take(actions, max_progression_actions_per_turn)) = <<>>
              \/ \E i \in DOMAIN Take(actions, max_progression_actions_per_turn) :
                    normalize_entry(actions[i]) = <<NormalizedActions[actions][j]>>

\* C31: a passing turn that runs the progression processes at most
\* max_progression_actions_per_turn proposed actions, taken from the first
\* max_progression_actions_per_turn entries of the proposal (an empty
\* normalized list becoming a single hold), so it applies at most that many
\* shrink / raise steps, and the list it returns is never empty.
C31_AtMostNActionsPerTurn ==
    /\ []normalized_from_the_first_entries
    /\ [][(result'.type = "turn_result" /\ result'.pass /\ ~demo_win_reached)
          => /\ result'.progression_actions # <<>>
             /\ Cardinality(processed(result'.progression_actions))
                    <= max_progression_actions_per_turn
             /\ Cardinality(range_steps(result'.progression_actions))
                    <= max_progression_actions_per_turn]_vars

\* A passing turn on the default range whose proposal had three shrink_max
\* entries: two were applied, and no lock came with them.
C31_TwoOfThreeShrinksApplied ==
    /\ result.type = "turn_result"
    /\ result.pass
    /\ result.progression_actions = <<"shrink_max", "shrink_max">>
    /\ min_g = 1
    /\ max_g = 500000

\* C32: called on a state with min_g < max_g, with any list and in either
\* mode, _apply_progression never takes the rollback branch: the returned
\* list is never hold_fallback_invalid_bounds, and min_g < max_g still holds
\* afterwards.
C32_RollbackNeverTaken ==
    /\ [](min_g < max_g)
    /\ [][result'.type = "progression"
          => "hold_fallback_invalid_bounds"
                 \notin SeqRange(result'.progression_actions)]_vars

\* A raise_min that took min_g past max_g (1..2 became 5..2) and was followed
\* by the lock, which put max_g above min_g again.
C32_RaiseMinPastMaxThenLock ==
    /\ result.type = "progression"
    /\ result.progression_actions
           = <<"set_range_skipped_not_allowed", "raise_min", "lock_range">>
    /\ config.start_max_weight_g = 2
    /\ min_g = 5
    /\ max_g = 500

\* max(min_g + 1, ceil(min_g * min_max_lock_ratio)) for min_g = lo
lock_target_of(lo) == Max(lo + 1, lo * min_max_lock_ratio)

\* C33: in every reachable state a locked range has max_g equal to
\* max(min_g + 1, ceil(min_g * min_max_lock_ratio)); and after every passing
\* turn in non-demo mode an unlocked range has max_g strictly above that
\* lock target.
C33_LockedIffAtLockTarget ==
    /\ [](range_locked => max_g = lock_target_of(min_g))
    /\ [][(/\ result'.type = "turn_result"
           /\ result'.pass
           /\ ~config.demo_mode
           /\ ~range_locked')
          => max_g' > lock_target_of(min_g')]_vars

\* A passing non-demo turn whose second shrink_max took 1..1000 to 1..50:
\* the lock put max_g at the target 100.
C33_LockedAtTargetAfterShrink ==
    /\ result.type = "turn_result"
    /\ result.pass
    /\ ~config.demo_mode
    /\ result.progression_actions = <<"shrink_max", "shrink_max", "lock_range">>
    /\ range_locked
    /\ min_g = 1
    /\ max_g = 100

\* C34: a submit whose asset resolution raises changes no field of GameState;
\* used_input_keys and used_canonical do not hold the keys of that
\* submission, so the same text can be judged again.
C34_AssetFailureLeavesStateAlone ==
    [][result'.type = "error_asset"
       => /\ UNCHANGED state_vars
          /\ RawKeys[result'.raw] \notin used_input_keys'
          /\ KeysOfNames[result'.canonical_name][result'.raw] \notin used_canonical']_vars

\* turn = 1 + |used_canonical| = 1 + |used_input_keys|
one_key_per_turn(t, canonical, input_keys) ==
    /\ t = 1 + Cardinality(canonical)
    /\ t = 1 + Cardinality(input_keys)

\* C35: turn = 1 + |used_canonical| = 1 + |used_input_keys| holds after
\* construction and after a reset, and every submit that does not end in an
\* error after the judge step keeps it: a resolved turn adds exactly one new
\* key to each set, and any other such submit adds none.
C35_OneKeyOfEachKindPerTurn ==
    /\ one_key_per_turn(turn, used_canonical, used_input_keys)
    /\ [][/\ result'.type = "state"
             => one_key_per_turn(turn', used_canonical', used_input_keys')
          /\ (/\ result'.type # "error_asset"
              /\ one_key_per_turn(turn, used_canonical, used_input_keys))
             => one_key_per_turn(turn', used_canonical', used_input_keys')
          /\ result'.type = "turn_result"
             => /\ used_canonical \subseteq used_canonical'
                /\ used_input_keys \subseteq used_input_keys'
                /\ Cardinality(used_canonical') = Cardinality(used_canonical) + 1
                /\ Cardinality(used_input_keys') = Cardinality(used_input_keys) + 1
          /\ result'.type \notin {"turn_result", "error_asset", "state"}
             => UNCHANGED <<used_canonical, used_input_keys>>]_vars

\* Three turns resolved with no asset failure in the run: three keys of each
\* kind.
C35_ThreeTurnsThreeKeysEach ==
    /\ result.type = "turn_result"
    /\ turn = 4
    /\ Cardinality(used_canonical) = 3
    /\ Cardinality(used_input_keys) = 3

\* The proposed list with every set_range entry replaced by an entry of a
\* type the engine does not know.
without_set_range(actions) ==
    [i \in DOMAIN actions |->
        IF normalize_entry(actions[i]) # <<>>
           /\ normalize_entry(actions[i])[1].type = T_SET_RANGE
        THEN DictEntry(<<"g", "r", "o", "w">>)
        ELSE actions[i]]

\* The called lists that hold a set_range entry, each with the normalized
\* form of its replacement.
ReplacedActions ==
    [actions \in {l \in CalledActionLists : has_set_range_action(NormalizedActions[l])} |->
        normalize_progression_actions(without_set_range(actions))]

same_end_state(p, q) ==
    /\ p.min_g = q.min_g
    /\ p.max_g = q.max_g
    /\ p.range_locked = q.range_locked
    /\ p.active_rules = q.active_rules

\* C36: in non-demo mode a progression call ends with the same min_g, max_g,
\* range_locked and active_rules whether the proposed list holds a set_range
\* entry or an entry of an unknown type in its place.
C36_SetRangeEntryChangesNothing ==
    ~config.demo_mode
    => \A actions \in DOMAIN ReplacedActions :
           same_end_state(run_progression(State, NormalizedActions[actions], FALSE, FALSE),
                          run_progression(State, ReplacedActions[actions], FALSE, FALSE))

\* The checks of a judgment that are about the rule (same rule key).
checks_of(rule_checks, rule) ==
    {i \in DOMAIN rule_checks : RuleKeys[rule_checks[i].rule] = RuleKeys[rule]}

\* C37: in a resolved turn no rule fails for want of a check: every rule
\* active before the turn has a check in the evaluated judgment, and a turn
\* that fails on a rule names a rule whose first check has ok = false.
C37_NoRuleFailsForMissingCheck ==
    [][result'.type = "turn_result"
       => /\ \A r \in DOMAIN active_rules :
                checks_of(result'.rule_checks, active_rules[r]) # {}
          /\ result'.reason = "rule_failed"
             => \E r \in DOMAIN active_rules :
                   /\ result'.rule_fail = active_rules[r]
                   /\ \E i \in checks_of(result'.rule_checks, active_rules[r]) :
                         /\ ~result'.rule_checks[i].ok
                         /\ \A j \in checks_of(result'.rule_checks, active_rules[r]) :
                               i <= j]_vars

\* A turn failed on a rule that has a single check, with ok = false, written
\* in another case and spacing than the rule.
C37_RuleFailedByItsOnlyCheck ==
    /\ result.type = "turn_result"
    /\ result.reason = "rule_failed"
    /\ \E i \in DOMAIN result.rule_checks :
          /\ checks_of(result.rule_checks, result.rule_fail) = {i}
          /\ ~result.rule_checks[i].ok
          /\ result.rule_checks[i].rule # result.rule_fail

\* C38: in non-demo mode, when every turn applies a shrink_max (or a hold
\* that is replaced by one) while the range is unlocked, each such turn
\* either leaves max_g strictly smaller or ends with the range locked; the
\* range is locked after finitely many turns, and from then on min_g, max_g
\* and range_locked stay as they are.
C38_ShrinkingEndsInLock ==
    /\ [][(~range_locked /\ shrink_applied(result'.progression_actions))
          => (range_locked' \/ max_g' < max_g)]_vars
    /\ <>range_locked
    /\ [][range_locked
          => (range_locked' /\ min_g' = min_g /\ max_g' = max_g)]_vars

\* The default range 1..10000000 shrunk turn after turn down to 1..200, one
\* shrink away from the lock.
C38_ShrunkToTheLastStep ==
    /\ config.start_max_weight_g = 10000000
    /\ result.type = "progression"
    /\ shrink_applied(result.progression_actions)
    /\ ~range_locked
    /\ min_g = 1
    /\ max_g = 200

\* Thread u makes its call while thread t, which was given the same text,
\* has made its own and has not sent the result yet.
served_second(t, u) ==
    /\ t # u
    /\ handlers[t].pc \in {"returned", "send"}
    /\ handlers[u].pc = "locked"
    /\ handlers'[u].pc = "returned"
    /\ strip(handlers[t].input_text) = strip(handlers[u].input_text)

\* C39, as stated: of two requests in flight with the same text, one the run
\* had not been given and the judge answered validly (the asset step not
\* failing either), the one served first gets a turn_result and the other
\* duplicate_input with no judge call, so turn advances by exactly 1.
C39_OneTurnForTwoRequests ==
    [][\A t, u \in Handlers :
          (/\ served_second(t, u)
           /\ handlers[t].judged
           /\ handlers[t].type \notin {"error_judge", "error_asset"})
          => /\ handlers[t].type = "turn_result"
             /\ result'.type = "duplicate_input"
             /\ result'.attempts = <<>>
             /\ turn' = turn]_vars

\* C39, amended: of two requests in flight with the same text, when the one
\* served first is resolved as a turn, the other is answered with no judge
\* call and no change of GameState: duplicate_input while the game is on,
\* game_over once it is over.
C39_SecondRequestAnsweredUnjudged ==
    [][\A t, u \in Handlers :
          (served_second(t, u) /\ handlers[t].type = "turn_result")
          => /\ result'.type = IF game_over THEN "game_over" ELSE "duplicate_input"
             /\ result'.attempts = <<>>
             /\ UNCHANGED state_vars]_vars

\* Both threads were given one text; the first got a turn_result that left
\* the game on, and the second was answered duplicate_input.
C39_SecondOfTwoIsDuplicate ==
    \E t, u \in Handlers :
       /\ t # u
       /\ handlers[t].pc = "send"
       /\ handlers[t].type = "turn_result"
       /\ handlers[u].pc = "returned"
       /\ handlers[u].type = "duplicate_input"
       /\ ~handlers[u].judged
       /\ handlers[t].input_text = handlers[u].input_text
       /\ ~game_over
       /\ turn = 2

====
